---- MODULE Spec2Model ----
(***************************************************************************)
(* Model of the Kokoro TTS plugin's text engine (src/src/text-processor.ts, *)
(* class TextProcessor, lines 18-351): quote normalisation, inline voice    *)
(* codes, segmentation, sentence splitting and chunk packing.               *)
(*                                                                          *)
(* A text is a sequence of characters.  A character is a one-character      *)
(* string; the typographic quotation marks are written by code point name.  *)
(***************************************************************************)
EXTENDS Integers, Sequences, FiniteSets, TLC

\* ------------------------------------------------------------------------
\* Bounds of the model
\* ------------------------------------------------------------------------

\* longest input, counted in pieces of Pieces
MaxLen == 4
\* longest input of the delimiter family, counted in pieces of MarkupPieces
MaxMarkup == 5
\* largest settings.maxChunkLength
MaxChunkLength == 3
\* the longest text made of quotation marks of every kind
MaxQuotes == 2
\* the longest sentence unit the forced split loop is entered with
MaxUnit == 5
\* the speakText calls that can be in progress together
MaxCalls == 2
\* the longest record of the traffic on the socket
MaxWire == 5

\* messages received over the socket
MaxMessages == 2

\* the connection activities (waiting starts, reconnect timers, sockets) that
\* go on at once
MaxPending == 2

\* pieces in a paragraph given to splitIntoSegments
MaxParagraph == 4

\* characters in a text given to splitPreservingQuotes
MaxSentence == 5

\* files in the voices directory
MaxFiles == 2

\* ------------------------------------------------------------------------
\* Characters and the JavaScript string operations the code uses
\* ------------------------------------------------------------------------

QUOTE == "\""
ASTERISK == "*"
SPACE == " "
NEWLINE == "\n"
TAB == "\t"

\* what String.prototype.trim and the regular expression class \s remove
Whitespace == {SPACE, NEWLINE, TAB}

LowerLetters ==
    {"a","b","c","d","e","f","g","h","i","j","k","l","m",
     "n","o","p","q","r","s","t","u","v","w","x","y","z"}

UpperMap ==
    ("A" :> "a") @@ ("B" :> "b") @@ ("C" :> "c") @@ ("D" :> "d") @@
    ("E" :> "e") @@ ("F" :> "f") @@ ("G" :> "g") @@ ("H" :> "h") @@
    ("I" :> "i") @@ ("J" :> "j") @@ ("K" :> "k") @@ ("L" :> "l") @@
    ("M" :> "m") @@ ("N" :> "n") @@ ("O" :> "o") @@ ("P" :> "p") @@
    ("Q" :> "q") @@ ("R" :> "r") @@ ("S" :> "s") @@ ("T" :> "t") @@
    ("U" :> "u") @@ ("V" :> "v") @@ ("W" :> "w") @@ ("X" :> "x") @@
    ("Y" :> "y") @@ ("Z" :> "z")

UpperLetters == DOMAIN UpperMap

\* String.prototype.toLowerCase, one character
ToLower(c) == IF c \in UpperLetters THEN UpperMap[c] ELSE c

\* String.prototype.toLowerCase
\* the string left as it is
ToLowerCase_Keep(s) == s

\* String.prototype.toLowerCase
ToLowerCase(s) ==
    [i \in 1..Len(s) |-> ToLower(s[i])]

\* s.slice(a, b) with 0 <= a <= b <= s.length (indices count from 0)
Slice(s, a, b) == SubSeq(s, a + 1, b)

\* s.slice(a)
SliceFrom(s, a) == SubSeq(s, a + 1, Len(s))

\* s[i] || ''
CharAt(s, i) == IF i >= 0 /\ i < Len(s) THEN s[i + 1] ELSE ""

RECURSIVE TrimStart(_)
TrimStart(s) ==
    IF s # <<>> /\ Head(s) \in Whitespace THEN TrimStart(Tail(s)) ELSE s

RECURSIVE TrimEnd(_)
TrimEnd(s) ==
    IF s # <<>> /\ s[Len(s)] \in Whitespace
    THEN TrimEnd(SubSeq(s, 1, Len(s) - 1))
    ELSE s

\* String.prototype.trim
Trim(s) == TrimEnd(TrimStart(s))

\* s.lastIndexOf(c, pos): the largest index <= pos holding c, or -1
RECURSIVE LastIndexOf(_, _, _)
LastIndexOf(s, c, pos) ==
    IF pos < 0 THEN -1
    ELSE IF pos >= Len(s) THEN LastIndexOf(s, c, Len(s) - 1)
    ELSE IF s[pos + 1] = c THEN pos
    ELSE LastIndexOf(s, c, pos - 1)

\* concatenation of a sequence of sequences
RECURSIVE Flatten(_)
Flatten(ss) == IF ss = <<>> THEN <<>> ELSE Head(ss) \o Flatten(Tail(ss))

\* ------------------------------------------------------------------------
\* Voice table: TextProcessor.voiceMap and updateVoiceMap
\* ------------------------------------------------------------------------

StockVoices ==
    << <<"a","f","_","a","l","l","o","y">>, <<"a","f","_","a","o","e","d","e">>,
       <<"a","f","_","b","e","l","l","a">>, <<"a","f","_","j","e","s","s","i","c","a">>,
       <<"a","f","_","k","o","r","e">>, <<"a","f","_","n","i","c","o","l","e">>,
       <<"a","f","_","n","o","v","a">>, <<"a","f","_","r","i","v","e","r">>,
       <<"a","f","_","s","a","r","a","h">>, <<"a","f","_","s","k","y">>,
       <<"a","m","_","a","d","a","m">>, <<"a","m","_","e","c","h","o">>,
       <<"a","m","_","e","r","i","c">>, <<"a","m","_","f","e","n","r","i","r">>,
       <<"a","m","_","l","i","a","m">>, <<"a","m","_","m","i","c","h","a","e","l">>,
       <<"a","m","_","o","n","y","x">>, <<"a","m","_","p","u","c","k">>,
       <<"b","f","_","a","l","i","c","e">>, <<"b","f","_","e","m","m","a">>,
       <<"b","f","_","i","s","a","b","e","l","l","a">>, <<"b","f","_","l","i","l","y">>,
       <<"b","m","_","d","a","n","i","e","l">>, <<"b","m","_","f","a","b","l","e">>,
       <<"b","m","_","g","e","o","r","g","e">>, <<"b","m","_","l","e","w","i","s">> >>

\* Map.prototype.set
MapSet(m, k, v) == (k :> v) @@ m

\* fullName.match(/^[a-z]{2}_(.+)$/)
HasPrefix(fullName) ==
    /\ Len(fullName) >= 4
    /\ fullName[1] \in LowerLetters
    /\ fullName[2] \in LowerLetters
    /\ fullName[3] = "_"
    /\ \A i \in 4..Len(fullName) : fullName[i] # NEWLINE

\* the closure addMapping of updateVoiceMap
addMapping(m, fullName) ==
    LET withShort == IF HasPrefix(fullName)
                     THEN MapSet(m, ToLowerCase(SliceFrom(fullName, 3)), fullName)
                     ELSE m
    IN  MapSet(withShort, ToLowerCase(fullName), fullName)

RECURSIVE AddMappings(_, _)
AddMappings(m, names) ==
    IF names = <<>> THEN m
    ELSE AddMappings(addMapping(m, Head(names)), Tail(names))

\* the voice names of the '.pt' files of a directory listing
RECURSIVE VoiceFiles(_)
VoiceFiles(files) ==
    IF files = <<>> THEN <<>>
    ELSE LET f == Head(files)
             n == Len(f)
         IN  (IF n >= 3 /\ SubSeq(f, n - 2, n) = <<".", "p", "t">>
              THEN << SubSeq(f, 1, n - 3) >>
              ELSE <<>>) \o VoiceFiles(Tail(files))

\* updateVoiceMap: dir is [ok |-> BOOLEAN, files |-> listing]; ok = FALSE
\* stands for an empty voicesPath or a readdirSync that throws
updateVoiceMap(dir) ==
    LET stock == AddMappings(<<>>, StockVoices)
    IN  IF dir.ok THEN AddMappings(stock, VoiceFiles(dir.files)) ELSE stock

\* ------------------------------------------------------------------------
\* Paragraphs: text.split(/\n\s*\n/)
\* ------------------------------------------------------------------------

\* first index >= j that holds no whitespace
RECURSIVE WsRunEnd(_, _)
WsRunEnd(s, j) ==
    IF j < Len(s) /\ s[j + 1] \in Whitespace THEN WsRunEnd(s, j + 1) ELSE j

\* end (exclusive) of the match of /\n\s*\n/ that starts at p, or -1:
\* \s* is greedy, so the match runs to the last line break of the whitespace run
BlankLineMatchEnd(s, p) ==
    IF CharAt(s, p) # NEWLINE THEN -1
    ELSE LET e == WsRunEnd(s, p + 1)
             l == LastIndexOf(s, NEWLINE, e - 1)
         IN  IF l > p THEN l + 1 ELSE -1

RECURSIVE SplitParagraphsFrom(_, _, _)
SplitParagraphsFrom(s, start, p) ==
    IF p >= Len(s) THEN << Slice(s, start, Len(s)) >>
    ELSE LET e == BlankLineMatchEnd(s, p)
         IN  IF e >= 0
             THEN << Slice(s, start, p) >> \o SplitParagraphsFrom(s, e, e)
             ELSE SplitParagraphsFrom(s, start, p + 1)

SplitParagraphs(s) == SplitParagraphsFrom(s, 0, 0)

\* ------------------------------------------------------------------------
\* preprocessText and getVoiceFromCode
\* ------------------------------------------------------------------------

\* the three character classes of QUOTE_PATTERNS
QUOTE_PATTERNS == << {"U+201C", "U+201D"}, {"U+201E", "U+201F"}, {QUOTE} >>

\* s.replace(pattern, '') : the marks of the pattern deleted
ReplaceQuotes_Drop(s, pattern) ==
    SelectSeq(s, LAMBDA c : c \notin pattern)

\* s.replace(pattern, '"') for a global character-class pattern
ReplaceQuotes(s, pattern) ==
    [i \in 1..Len(s) |-> IF s[i] \in pattern THEN QUOTE ELSE s[i]]

\* the loop of lines 80-82 running the last pattern only
NormalizeQuotes_StraightOnly(s) ==
    ReplaceQuotes(s, QUOTE_PATTERNS[3])

NormalizeQuotes(s) ==
    ReplaceQuotes(ReplaceQuotes(ReplaceQuotes(s, QUOTE_PATTERNS[1]),
                                QUOTE_PATTERNS[2]), QUOTE_PATTERNS[3])

\* getVoiceFromCode never finding the code
getVoiceFromCode_Default(code, st, vmap) == st.selectedVoice

getVoiceFromCode(code, st, vmap) ==
    IF code = <<>> THEN st.selectedVoice
    ELSE LET normalizedCode == ToLowerCase(code)
         IN  IF normalizedCode \in DOMAIN vmap /\ vmap[normalizedCode] # <<>>
             THEN vmap[normalizedCode]
             ELSE st.selectedVoice

\* [a-z] under the flag i
IsLetter(c) == c \in LowerLetters \/ c \in UpperLetters

\* first index >= j that holds no letter
RECURSIVE LetterRunEnd(_, _)
LetterRunEnd(s, j) ==
    IF j < Len(s) /\ IsLetter(s[j + 1]) THEN LetterRunEnd(s, j + 1) ELSE j

\* the match of /ktts([a-z]+)/i, without the lookahead, that starts at p
KttsMatchEnd_NoLookahead(s, p) ==
    IF /\ p + 4 <= Len(s)
       /\ ToLower(s[p + 1]) = "k"
       /\ ToLower(s[p + 2]) = "t"
       /\ ToLower(s[p + 3]) = "t"
       /\ ToLower(s[p + 4]) = "s"
    THEN LET e == LetterRunEnd(s, p + 4)
         IN  IF e > p + 4 THEN e ELSE -1
    ELSE -1

\* end (exclusive) of the match of /ktts([a-z]+)(?=")/i that starts at p, or -1
KttsMatchEnd(s, p) ==
    IF /\ p + 4 <= Len(s)
       /\ ToLower(s[p + 1]) = "k"
       /\ ToLower(s[p + 2]) = "t"
       /\ ToLower(s[p + 3]) = "t"
       /\ ToLower(s[p + 4]) = "s"
    THEN LET e == LetterRunEnd(s, p + 4)
         IN  IF e > p + 4 /\ CharAt(s, e) = QUOTE THEN e ELSE -1
    ELSE -1

\* kttsRegex.exec(s) with lastIndex: the leftmost match at or after lastIndex
RECURSIVE KttsExec(_, _)
KttsExec(s, lastIndex) ==
    IF lastIndex + 4 > Len(s) THEN [index |-> -1, end |-> -1]
    ELSE LET e == KttsMatchEnd(s, lastIndex)
         IN  IF e >= 0 THEN [index |-> lastIndex, end |-> e]
             ELSE KttsExec(s, lastIndex + 1)

\* the loop recording match.index as the start, without totalOffset
RECURSIVE PreprocessLoop_NoOffset(_, _, _, _, _, _, _)
PreprocessLoop_NoOffset(processedText, lastIndex, processedResult, totalOffset, voiceAssignments, st, vmap) ==
    LET match == KttsExec(processedText, lastIndex)
    IN  IF match.index < 0
        THEN [text |-> processedResult, voiceAssignments |-> voiceAssignments]
        ELSE LET voiceCode == ToLowerCase(Slice(processedText, match.index + 4, match.end))
                 removeLength == match.end - match.index
                 cut == match.index - totalOffset
             IN  PreprocessLoop_NoOffset(
                     processedText, match.end,
                     Slice(processedResult, 0, cut)
                         \o SliceFrom(processedResult, cut + removeLength),
                     totalOffset + removeLength,
                     Append(voiceAssignments,
                            [start |-> match.index,
                             voice |-> getVoiceFromCode(voiceCode, st, vmap)]),
                     st, vmap)

\* the while loop of preprocessText
RECURSIVE PreprocessLoop(_, _, _, _, _, _, _)
PreprocessLoop(processedText, lastIndex, processedResult, totalOffset, voiceAssignments, st, vmap) ==
    LET match == KttsExec(processedText, lastIndex)
    IN  IF match.index < 0
        THEN [text |-> processedResult, voiceAssignments |-> voiceAssignments]
        ELSE LET voiceCode == ToLowerCase(Slice(processedText, match.index + 4, match.end))
                 voice == getVoiceFromCode(voiceCode, st, vmap)
                 removeLength == match.end - match.index
                 newOffset == totalOffset + removeLength
                 cut == match.index - (newOffset - removeLength)
             IN  PreprocessLoop(
                     processedText, match.end,
                     Slice(processedResult, 0, cut)
                         \o SliceFrom(processedResult, cut + removeLength),
                     newOffset,
                     Append(voiceAssignments,
                            [start |-> match.index - totalOffset, voice |-> voice]),
                     st, vmap)

preprocessText(text, st, vmap) ==
    LET processedText == NormalizeQuotes(text)
    IN  PreprocessLoop(processedText, 0, processedText, 0, <<>>, st, vmap)

\* ------------------------------------------------------------------------
\* splitIntoSegments
\* ------------------------------------------------------------------------

\* segment types: 'normal', 'quoted', 'asterisk' and `quoted:${voice}`
NormalType == [kind |-> "normal", voice |-> <<>>]
QuotedType == [kind |-> "quoted", voice |-> <<>>]
AsteriskType == [kind |-> "asterisk", voice |-> <<>>]
InlineType(v) == [kind |-> "quoted:", voice |-> v]

\* the push without its test of currentText
PushSegment_Always(segments, currentText, currentType) ==
    Append(segments, [text |-> currentText, type |-> currentType])

\* if (currentText) segments.push({text: currentText, type: currentType})
PushSegment(segments, currentText, currentType) ==
    IF currentText # <<>>
    THEN Append(segments, [text |-> currentText, type |-> currentType])
    ELSE segments

\* the type chosen at a quotation mark, lines 168-175
QuoteType(inQuote, matched, voice) ==
    IF matched THEN InlineType(voice)
    ELSE IF inQuote THEN QuotedType ELSE NormalType

\* the type chosen at an asterisk outside a quotation, line 185
AsteriskToggleType(inAsterisk) ==
    IF inAsterisk THEN AsteriskType ELSE NormalType

\* the iteration whose asterisk branch does not look at inQuote
SegmentStep_AsteriskAnywhere(pt, va, sc) ==
    LET c == pt[sc.i + 1]
    IN  IF c = QUOTE
        THEN LET inQ == ~sc.inQuote
                 matched == /\ inQ
                            /\ sc.idx < Len(va)
                            /\ va[sc.idx + 1].start = sc.i
             IN  [sc EXCEPT
                    !.segments = PushSegment(sc.segments, sc.currentText, sc.currentType),
                    !.currentText = <<>>,
                    !.inQuote = inQ,
                    !.currentType = QuoteType(inQ, matched,
                                       IF matched THEN va[sc.idx + 1].voice ELSE <<>>),
                    !.idx = IF matched THEN sc.idx + 1 ELSE sc.idx,
                    !.i = sc.i + 1]
        ELSE IF c = ASTERISK
        THEN LET inA == ~sc.inAsterisk
             IN  [sc EXCEPT
                    !.segments = PushSegment(sc.segments, sc.currentText, sc.currentType),
                    !.currentText = <<>>,
                    !.inAsterisk = inA,
                    !.currentType = AsteriskToggleType(inA),
                    !.i = sc.i + 1]
        ELSE [sc EXCEPT !.currentText = Append(sc.currentText, c), !.i = sc.i + 1]

\* one iteration of the while loop of splitIntoSegments at index sc.i
SegmentStep(pt, va, sc) ==
    LET c == pt[sc.i + 1]
    IN  IF c = QUOTE
        THEN LET inQ == ~sc.inQuote
                 matched == /\ inQ
                            /\ sc.idx < Len(va)
                            /\ va[sc.idx + 1].start = sc.i
             IN  [sc EXCEPT
                    !.segments = PushSegment(sc.segments, sc.currentText, sc.currentType),
                    !.currentText = <<>>,
                    !.inQuote = inQ,
                    !.currentType = QuoteType(inQ, matched,
                                       IF matched THEN va[sc.idx + 1].voice ELSE <<>>),
                    !.idx = IF matched THEN sc.idx + 1 ELSE sc.idx,
                    !.i = sc.i + 1]
        ELSE IF c = ASTERISK /\ ~sc.inQuote
        THEN LET inA == ~sc.inAsterisk
             IN  [sc EXCEPT
                    !.segments = PushSegment(sc.segments, sc.currentText, sc.currentType),
                    !.currentText = <<>>,
                    !.inAsterisk = inA,
                    !.currentType = AsteriskToggleType(inA),
                    !.i = sc.i + 1]
        ELSE [sc EXCEPT !.currentText = Append(sc.currentText, c), !.i = sc.i + 1]

\* the scanner's variables before the loop, lines 148-158
ScanInit ==
    [segments |-> <<>>, currentText |-> <<>>, currentType |-> NormalType,
     inQuote |-> FALSE, inAsterisk |-> FALSE, idx |-> 0, i |-> 0]

RECURSIVE SegmentScan(_, _, _)
SegmentScan(pt, va, sc) ==
    IF sc.i < Len(pt) THEN SegmentScan(pt, va, SegmentStep(pt, va, sc)) ELSE sc

\* the scanner's variables when the while loop ends
ScanEnd(text, st, vmap) ==
    LET pre == preprocessText(text, st, vmap)
    IN  SegmentScan(pre.text, pre.voiceAssignments, ScanInit)

splitIntoSegments(text, st, vmap) ==
    LET sc == ScanEnd(text, st, vmap)
    IN  PushSegment(sc.segments, sc.currentText, sc.currentType)

\* ------------------------------------------------------------------------
\* splitPreservingQuotes
\* ------------------------------------------------------------------------

Terminators == {".", "!", "?"}

\* the lookahead accepting every next character
ClosesUnit_Any(nextChar) == TRUE

\* nextChar === ' ' || nextChar === '\n' || nextChar === '', line 225
ClosesUnit(nextChar) == nextChar = SPACE \/ nextChar = NEWLINE \/ nextChar = ""

\* the for loop of splitPreservingQuotes from index i on
RECURSIVE SentenceScan(_, _, _, _, _)
SentenceScan(text, i, sentences, buffer, inQuote) ==
    IF i >= Len(text)
    THEN IF buffer # <<>> THEN Append(sentences, Trim(buffer)) ELSE sentences
    ELSE LET c == text[i + 1]
             buf == Append(buffer, c)
             inQ == IF c = QUOTE THEN ~inQuote ELSE inQuote
         IN  IF ~inQ /\ c \in Terminators /\ ClosesUnit(CharAt(text, i + 1))
             THEN SentenceScan(text, i + 1, Append(sentences, Trim(buf)), <<>>, inQ)
             ELSE SentenceScan(text, i + 1, sentences, buf, inQ)

splitPreservingQuotes(text) ==
    SelectSeq(SentenceScan(text, 0, <<>>, <<>>, FALSE), LAMBDA u : u # <<>>)

\* ------------------------------------------------------------------------
\* getVoiceForSegment
\* ------------------------------------------------------------------------

\* the switch on the segment type, lines 261-268
DistinctVoice(type, st) ==
    IF type.kind = "quoted" THEN st.quotedTextVoice
    ELSE IF type.kind = "asterisk" THEN st.asteriskTextVoice
    ELSE st.selectedVoice

\* getVoiceForSegment without the test of useDistinctVoices
getVoiceForSegment_NoFlag(type, st) ==
    IF type.kind = "quoted:" /\ type.voice # <<>> THEN type.voice
    ELSE DistinctVoice(type, st)

getVoiceForSegment(type, st) ==
    IF type.kind = "quoted:" /\ type.voice # <<>> THEN type.voice
    ELSE IF ~st.useDistinctVoices THEN st.selectedVoice
    ELSE DistinctVoice(type, st)

\* ------------------------------------------------------------------------
\* The chunk packer of splitIntoChunks
\* ------------------------------------------------------------------------

\* lines 301-317 with the cut at the limit also skipping the character there
RECURSIVE ForcedSplit_SkipChar(_, _, _)
ForcedSplit_SkipChar(remainingSentence, max, pushed) ==
    IF Len(remainingSentence) > max
    THEN LET lastSpace == LastIndexOf(remainingSentence, SPACE, max)
         IN  IF lastSpace = -1
             THEN ForcedSplit_SkipChar(SliceFrom(remainingSentence, max + 1), max,
                              Append(pushed, Trim(Slice(remainingSentence, 0, max))))
             ELSE ForcedSplit_SkipChar(SliceFrom(remainingSentence, lastSpace + 1), max,
                              Append(pushed, Trim(Slice(remainingSentence, 0, lastSpace))))
    ELSE [pushed |-> pushed, remaining |-> remainingSentence]

\* lines 302-316 with the cut at a space keeping the space in what remains
ForcedSplitStep_KeepSpace(remainingSentence, max) ==
    LET lastSpace == LastIndexOf(remainingSentence, SPACE, max)
    IN  IF lastSpace = -1
        THEN [chunk |-> Trim(Slice(remainingSentence, 0, max)),
              rest |-> SliceFrom(remainingSentence, max)]
        ELSE [chunk |-> Trim(Slice(remainingSentence, 0, lastSpace)),
              rest |-> SliceFrom(remainingSentence, lastSpace)]

\* one iteration of the while loop, lines 302-316: the text pushed and the
\* new remainingSentence
ForcedSplitStep(remainingSentence, max) ==
    LET lastSpace == LastIndexOf(remainingSentence, SPACE, max)
    IN  IF lastSpace = -1
        THEN [chunk |-> Trim(Slice(remainingSentence, 0, max)),
              rest |-> SliceFrom(remainingSentence, max)]
        ELSE [chunk |-> Trim(Slice(remainingSentence, 0, lastSpace)),
              rest |-> SliceFrom(remainingSentence, lastSpace + 1)]

\* the while loop of lines 301-317: the texts pushed and what remains
RECURSIVE ForcedSplit(_, _, _)
ForcedSplit(remainingSentence, max, pushed) ==
    IF Len(remainingSentence) > max
    THEN LET step == ForcedSplitStep(remainingSentence, max)
         IN  ForcedSplit(step.rest, max, Append(pushed, step.chunk))
    ELSE [pushed |-> pushed, remaining |-> remainingSentence]

\* line 325 written without the joining space
ExceedsLimit_NoJoin(currentChunk, trimmedSentence, max) ==
    Len(currentChunk) + Len(trimmedSentence) > max

\* the test of line 325
ExceedsLimit(currentChunk, trimmedSentence, max) ==
    Len(currentChunk) + Len(trimmedSentence) + 1 > max

\* lines 290-331 with line 327 left out: the sentence that did not fit is
\* not taken into the buffer
PackSentence_DropSentence(pk, sentence, max) ==
    LET trimmedSentence == Trim(sentence)
    IN  IF Len(trimmedSentence) > max
        THEN LET flushed == IF pk.currentChunk # <<>>
                            THEN Append(pk.pushed, Trim(pk.currentChunk))
                            ELSE pk.pushed
                 fs == ForcedSplit(trimmedSentence, max, flushed)
             IN  [pushed |-> fs.pushed, currentChunk |-> fs.remaining]
        ELSE IF ExceedsLimit(pk.currentChunk, trimmedSentence, max)
        THEN [pushed |-> Append(pk.pushed, Trim(pk.currentChunk)),
              currentChunk |-> <<>>]
        ELSE [pushed |-> pk.pushed,
              currentChunk |-> pk.currentChunk
                                 \o (IF pk.currentChunk # <<>> THEN <<SPACE>> ELSE <<>>)
                                 \o trimmedSentence]

\* one iteration of the loop over the sentences, lines 290-331;
\* pk is [pushed |-> texts pushed so far, currentChunk |-> buffer]
PackSentence(pk, sentence, max) ==
    LET trimmedSentence == Trim(sentence)
    IN  IF Len(trimmedSentence) > max
        THEN LET flushed == IF pk.currentChunk # <<>>
                            THEN Append(pk.pushed, Trim(pk.currentChunk))
                            ELSE pk.pushed
                 fs == ForcedSplit(trimmedSentence, max, flushed)
             IN  [pushed |-> fs.pushed, currentChunk |-> fs.remaining]
        ELSE IF ExceedsLimit(pk.currentChunk, trimmedSentence, max)
        THEN [pushed |-> Append(pk.pushed, Trim(pk.currentChunk)),
              currentChunk |-> trimmedSentence]
        ELSE [pushed |-> pk.pushed,
              currentChunk |-> pk.currentChunk
                                 \o (IF pk.currentChunk # <<>> THEN <<SPACE>> ELSE <<>>)
                                 \o trimmedSentence]

RECURSIVE PackSentences(_, _, _)
PackSentences(pk, sentences, max) ==
    IF sentences = <<>> THEN pk
    ELSE PackSentences(PackSentence(pk, Head(sentences), max), Tail(sentences), max)

\* the body of the loop over the segments, lines 285-335: the segment's chunks
SegmentChunks(segment, st) ==
    LET voice == getVoiceForSegment(segment.type, st)
        pk == PackSentences([pushed |-> <<>>, currentChunk |-> <<>>],
                            splitPreservingQuotes(segment.text), st.maxChunkLength)
        texts == IF pk.currentChunk # <<>>
                 THEN Append(pk.pushed, Trim(pk.currentChunk))
                 ELSE pk.pushed
    IN  [k \in 1..Len(texts) |-> [text |-> texts[k], voice |-> voice]]

\* line 273 never splitting
Paragraphs_Whole(text, st) == << text >>

\* the paragraphs of line 273
Paragraphs(text, st) ==
    IF st.respectParagraphs THEN SplitParagraphs(text) ELSE << text >>

\* the paragraph packed with one buffer for all its segments, under the
\* voice of the first
ParagraphChunks_SharedBuffer(paragraph, st, vmap) ==
    LET segments == splitIntoSegments(paragraph, st, vmap)
        sentences == Flatten([k \in 1..Len(segments) |->
                                splitPreservingQuotes(segments[k].text)])
    IN  IF segments = <<>> THEN <<>>
        ELSE SegmentChunks([text |-> Flatten([k \in 1..Len(sentences) |->
                                                sentences[k] \o << SPACE >>]),
                            type |-> segments[1].type], st)

\* the chunks of one paragraph, lines 280-336
ParagraphChunks(paragraph, st, vmap) ==
    LET segments == splitIntoSegments(paragraph, st, vmap)
    IN  Flatten([k \in 1..Len(segments) |-> SegmentChunks(segments[k], st)])

splitIntoChunks(text, st, vmap) ==
    LET paragraphs == Paragraphs(text, st)
    IN  Flatten([k \in 1..Len(paragraphs) |-> ParagraphChunks(paragraphs[k], st, vmap)])

\* ------------------------------------------------------------------------
\* Inputs
\* ------------------------------------------------------------------------

Ktts == <<"k", "t", "t", "s">>
Sky == <<"s", "k", "y">>

\* the pieces texts are made of: a letter, whitespace, the delimiters, a
\* sentence terminator and a token with a voice code the table holds
Pieces ==
    { <<"a">>, <<SPACE>>, <<NEWLINE>>, <<QUOTE>>, <<ASTERISK>>, <<".">>,
      Ktts \o Sky }

\* the pieces of the texts made of delimiters and tokens only: here a token
\* comes with the quotation mark that makes it one, and its code is in no table
MarkupPieces == { <<"a">>, <<QUOTE>>, <<ASTERISK>>, Ktts \o <<"a", QUOTE>> }

\* the quoted words of CodedTexts
QuotedWords == { <<"a">>, <<"h", "i">> }

\* the texts made of at most n pieces
TextsOf(pieces, n) ==
    UNION { { Flatten(ps) : ps \in [1..k -> pieces] } : k \in 0..n }

\* the short names the stock voices are filed under
StockCodes == { SliceFrom(StockVoices[k], 3) : k \in 1..Len(StockVoices) }

\* 'ktts' + code + a quoted word
CodedTexts ==
    { Ktts \o c \o <<QUOTE>> \o w \o <<QUOTE>> : c \in StockCodes, w \in QuotedWords }

\* the typographic quotation marks and the straight one, with a letter
QuotePieces == { <<"U+201C">>, <<"U+201D">>, <<"U+201E">>, <<"U+201F">>, <<QUOTE>>, <<"a">> }

\* He said "Stop. Now." and left.
StopNow ==
    << "H", "e", SPACE, "s", "a", "i", "d", SPACE, QUOTE, "S", "t", "o",
       "p", ".", SPACE, "N", "o", "w", ".", QUOTE, SPACE, "a", "n", "d",
       SPACE, "l", "e", "f", "t", "." >>

\* the spellings of 'ktts' + sky in other letter cases, before a quoted letter
CaseTexts ==
    { k \o c \o <<QUOTE, "a", QUOTE>> :
        k \in { Ktts, <<"K", "T", "T", "S">>, <<"K", "t", "t", "s">> },
        c \in { Sky, <<"S", "k", "y">>, <<"S", "K", "Y">>, <<"s", "k", "Y">> } }

Inputs ==
    TextsOf(Pieces, MaxLen) \cup TextsOf(MarkupPieces, MaxMarkup) \cup CodedTexts
        \cup TextsOf(QuotePieces, MaxQuotes) \cup CaseTexts \cup {StopNow}

\* ------------------------------------------------------------------------
\* State
\* ------------------------------------------------------------------------

VARIABLES
    settings,   \* KokoroTTSSettings, the fields the text engine reads
    voiceMap,   \* TextProcessor.voiceMap
    pc,         \* "idle", or "chunked" while speakText holds the chunk list
    text,       \* the argument of the running speakText
    chunks      \* the list splitIntoChunks returned to it

\* the forced split loop of splitIntoChunks, taken one iteration at a time
VARIABLES
    loopPc,             \* "out", or "loop" inside the while loop of line 301
    remainingSentence,  \* the local remainingSentence
    pushed              \* the texts the loop has pushed

\* BackendManager and its socket
VARIABLES
    ws,         \* "null", or "open" for a WebSocket in readyState OPEN
    calls,      \* the speakText calls: where each is, its chunks, its index i
    listeners,  \* the calls whose 'message' handler is on the socket, in order
    wire        \* what went over the socket: commands sent, messages received

\* BackendManager's connection to the backend process
VARIABLES
    pythonProcess,      \* TRUE when this.pythonProcess is set
    reconnectAttempts,  \* this.reconnectAttempts
    reconnectTimeout,   \* this.reconnectTimeout
    timers,             \* the delays of the pending reconnect timers
    sockets,            \* the sockets this.ws no longer refers to, by readyState
    starting,           \* the startBackend calls in their 2000 ms wait
    stopping,           \* how far stopBackend is, and the events its kill left
    loaded,             \* FALSE once onunload has run
    attempt             \* the reconnect attempt made last: its number and delay

\* splitIntoSegments and splitPreservingQuotes, taken stage by stage
VARIABLES
    stage,      \* "idle", "scan" in the while loop of line 158, "segmented",
                \* "units", "segment units"
    paragraphArg,  \* the argument of splitIntoSegments
    cleaned,    \* what preprocessText returned for it
    scan,       \* the local variables of splitIntoSegments
    segmentList,  \* the list splitIntoSegments returned
    sentence,   \* the argument of splitPreservingQuotes
    units       \* the list splitPreservingQuotes returned

\* the voices directory and a call of getVoiceFromCode
VARIABLES
    voicesDir,      \* what readdirSync(settings.voicesPath) gave updateVoiceMap
    voiceCode,      \* the argument of getVoiceFromCode
    resolvedVoice   \* what getVoiceFromCode returned for it

textVars == << settings, voiceMap, pc, text, chunks >>
loopVars == << loopPc, remainingSentence, pushed >>
backendVars == << ws, calls, listeners, wire >>
connVars == << pythonProcess, reconnectAttempts, reconnectTimeout, timers, sockets, starting, stopping, loaded, attempt >>
stageVars == << stage, paragraphArg, cleaned, scan, segmentList, sentence, units >>
voiceVars == << voicesDir, voiceCode, resolvedVoice >>

vars == << settings, voiceMap, pc, text, chunks, loopPc, remainingSentence, pushed, ws, calls, listeners, wire, pythonProcess, reconnectAttempts, reconnectTimeout, timers, sockets, starting, stopping, loaded, attempt, stage, paragraphArg, cleaned, scan, segmentList, sentence, units, voicesDir, voiceCode, resolvedVoice >>

af_bella == StockVoices[3]
af_sarah == StockVoices[9]
am_adam == StockVoices[11]

\* loadSettings: the stored values override DEFAULT_SETTINGS.  The three
\* voices are pairwise distinct, so that a chunk's voice tells which setting
\* it was read from.
LoadedSettings ==
    { [maxChunkLength |-> m, respectParagraphs |-> rp, useDistinctVoices |-> dv,
       selectedVoice |-> af_bella, quotedTextVoice |-> af_sarah,
       asteriskTextVoice |-> am_adam] :
      m \in 1..MaxChunkLength, rp \in BOOLEAN, dv \in BOOLEAN }

\* the calls speakText can be made as
Calls == 1..MaxCalls

\* no speakText call has been made
NoCall == [pc |-> "idle", chunks |-> <<>>, i |-> 0, error |-> ""]

\* outside the forced split loop
LoopOut ==
    /\ loopPc = "out"
    /\ remainingSentence = <<>>
    /\ pushed = <<>>

\* no socket but the one this.ws refers to
NoSockets == [connecting |-> 0, open |-> 0, closing |-> 0]

\* stopBackend is not running and no event of a killed process is pending
NotStopping == [phase |-> "no", exit |-> FALSE, fallback |-> FALSE]

\* splitIntoSegments and splitPreservingQuotes are not running
StagesIdle ==
    /\ stage = "idle"
    /\ paragraphArg = <<>>
    /\ cleaned = [text |-> <<>>, voiceAssignments |-> <<>>]
    /\ scan = ScanInit
    /\ segmentList = <<>>
    /\ sentence = <<>>
    /\ units = <<>>

\* BackendManager after construction: no socket, no call
BackendInit ==
    /\ ws = "null"
    /\ calls = [c \in Calls |-> NoCall]
    /\ listeners = <<>>
    /\ wire = <<>>
    /\ pythonProcess = FALSE
    /\ reconnectAttempts = 0
    /\ reconnectTimeout = 1000
    /\ timers = <<>>
    /\ sockets = NoSockets
    /\ starting = 0
    /\ stopping = NotStopping
    /\ loaded = TRUE
    /\ attempt = [n |-> 0, delay |-> 0]

\* the constructor's updateVoiceMap with no voicesPath set; no code resolved
NoVoicesDir ==
    /\ voicesDir = [ok |-> FALSE, files |-> <<>>]
    /\ voiceCode = <<>>
    /\ resolvedVoice = <<>>

Init ==
    /\ settings \in LoadedSettings
    /\ NoVoicesDir
    /\ voiceMap = updateVoiceMap([ok |-> FALSE, files |-> <<>>])
    /\ pc = "idle"
    /\ text = <<>>
    /\ chunks = <<>>
    /\ LoopOut
    /\ BackendInit
    /\ StagesIdle

\* KokoroTTSPlugin.speakText up to the call of splitIntoChunks
SpeakText ==
    /\ pc = "idle"
    /\ \E t \in Inputs :
          /\ text' = t
          /\ chunks' = splitIntoChunks(t, settings, voiceMap)
    /\ pc' = "chunked"
    /\ UNCHANGED << settings, voiceMap, loopVars, backendVars, connVars, stageVars, voiceVars >>

\* speakText returns: the chunk list goes out of scope
SpeakTextDone ==
    /\ pc = "chunked"
    /\ pc' = "idle"
    /\ text' = <<>>
    /\ chunks' = <<>>
    /\ UNCHANGED << settings, voiceMap, loopVars, backendVars, connVars, stageVars, voiceVars >>

\* the toggle 'Respect paragraphs'
SetRespectParagraphs(value) ==
    /\ pc = "idle"
    /\ settings.respectParagraphs # value
    /\ settings' = [settings EXCEPT !.respectParagraphs = value]
    /\ UNCHANGED << voiceMap, pc, text, chunks, loopVars, backendVars, connVars, stageVars, voiceVars >>

\* the toggle 'Use distinct voices'
SetUseDistinctVoices(value) ==
    /\ pc = "idle"
    /\ settings.useDistinctVoices # value
    /\ settings' = [settings EXCEPT !.useDistinctVoices = value]
    /\ UNCHANGED << voiceMap, pc, text, chunks, loopVars, backendVars, connVars, stageVars, voiceVars >>

Next ==
    \/ SpeakText
    \/ SpeakTextDone
    \/ \E value \in BOOLEAN : SetRespectParagraphs(value)
    \/ \E value \in BOOLEAN : SetUseDistinctVoices(value)

Spec == Init /\ [][Next]_vars

TypeOK ==
    /\ pc \in {"idle", "chunked"}
    /\ settings \in LoadedSettings
    /\ \A k \in 1..Len(chunks) : DOMAIN chunks[k] = {"text", "voice"}

\* ------------------------------------------------------------------------
\* The forced split loop, one iteration per step
\* ------------------------------------------------------------------------

\* the sentence units made of letters, spaces, tabs and line feeds:
\* sentence.trim() of line 291
Units ==
    { Trim(u) : u \in TextsOf({ <<"a">>, <<SPACE>>, <<TAB>>, <<NEWLINE>> }, MaxUnit) }

\* line 294 finds the unit longer than maxChunkLength; line 300
EnterForcedSplit ==
    /\ loopPc = "out"
    /\ \E u \in Units :
          /\ Len(u) > settings.maxChunkLength
          /\ remainingSentence' = u
    /\ pushed' = <<>>
    /\ loopPc' = "loop"
    /\ UNCHANGED << textVars, backendVars, connVars, stageVars, voiceVars >>

\* one pass through the body of the while loop, lines 301-316
ForcedSplitIteration ==
    /\ loopPc = "loop"
    /\ Len(remainingSentence) > settings.maxChunkLength
    /\ LET step == ForcedSplitStep(remainingSentence, settings.maxChunkLength)
       IN  /\ pushed' = Append(pushed, step.chunk)
           /\ remainingSentence' = step.rest
    /\ UNCHANGED << loopPc, textVars, backendVars, connVars, stageVars, voiceVars >>

\* the loop test of line 301 fails: lines 318-321 keep what remains
ExitForcedSplit ==
    /\ loopPc = "loop"
    /\ ~(Len(remainingSentence) > settings.maxChunkLength)
    /\ loopPc' = "out"
    /\ remainingSentence' = <<>>
    /\ pushed' = <<>>
    /\ UNCHANGED << textVars, backendVars, connVars, stageVars, voiceVars >>

NextSplit ==
    \/ EnterForcedSplit
    \/ ForcedSplitIteration
    \/ ExitForcedSplit

SpecSplit == Init /\ [][NextSplit]_vars

\* ------------------------------------------------------------------------
\* BackendManager.speakText and the socket
\* ------------------------------------------------------------------------

\* the values of response.status the backend sends
Statuses == {"generated", "error", "generating", "pong", "stopped", "session_stats"}

\* response.message of an 'error' message
BackendError == "synthesis failed"

\* the Error speakText throws without an open socket
NotConnected == "TTS backend not connected"

\* a command sent by ws.send
Sent(c, action, index) ==
    [kind |-> "send", what |-> action, call |-> c, index |-> index, message |-> ""]

\* a message event of the socket
Received(status, message) ==
    [kind |-> "recv", what |-> status, call |-> 0, index |-> 0, message |-> message]

\* the handler resolving on every status but 'error'
HandlerResolves_Any(status) ==
    status # "error"

\* the handler's first test: response.status === 'generated'
HandlerResolves(status) ==
    status = "generated"

\* the handler without its 'error' branch
HandlerRejects_Never(status) ==
    FALSE

\* the handler's second test: response.status === 'error'
HandlerRejects(status) ==
    status = "error"

\* the for loop skipping blank chunks from index i on: the index of the next
\* chunk to speak, or chunks.length
RECURSIVE NextSpeakable(_, _)
NextSpeakable(cs, i) ==
    IF i < Len(cs) /\ Trim(cs[i + 1].text) = <<>>
    THEN NextSpeakable(cs, i + 1)
    ELSE i

\* the chunk_index values of the speak commands the for loop sends from
\* index from on when every wait is resolved; the command with the index
\* chunks.length - 1 is the one sent with is_last_chunk = true (line 318)
RECURSIVE SpeakIndices(_, _)
SpeakIndices(cs, from) ==
    LET i == NextSpeakable(cs, from)
    IN  IF i < Len(cs) THEN << i >> \o SpeakIndices(cs, i + 1) ELSE <<>>

\* the for loop of call c from index from on, up to its next await or its
\* end; st is [calls, listeners, wire]
RunLoop(st, c, from) ==
    LET i == NextSpeakable(st.calls[c].chunks, from)
    IN  IF i < Len(st.calls[c].chunks)
        THEN [calls |-> [st.calls EXCEPT ![c].pc = "wait", ![c].i = i],
              listeners |-> Append(st.listeners, c),
              wire |-> Append(st.wire, Sent(c, "speak", i))]
        ELSE [calls |-> [st.calls EXCEPT ![c].pc = "resolved", ![c].i = i],
              listeners |-> st.listeners,
              wire |-> st.wire]

\* the calls whose promise a message resolved go on, in the order in which
\* their handlers were added
RECURSIVE ResumeAll(_, _)
ResumeAll(st, released) ==
    IF released = <<>> THEN st
    ELSE ResumeAll(RunLoop(st, Head(released), st.calls[Head(released)].i + 1),
                   Tail(released))

\* connectWebSocket and the socket's onopen, which sends a ping
ConnectWebSocket ==
    /\ ws = "null"
    /\ Len(wire) < MaxWire
    /\ ws' = "open"
    /\ wire' = Append(wire, Sent(0, "ping", 0))
    /\ UNCHANGED << calls, listeners, textVars, loopVars, connVars, stageVars, voiceVars >>

\* the chunk lists speakText is called with
ChunkLists ==
    { splitIntoChunks(t, settings, voiceMap) :
        t \in { <<>>, <<".">>, <<".", SPACE, ".">>, <<"a", SPACE, "a">> } }

\* BackendManager.speakText(chunks) up to its first await, as call c
BackendSpeakText(c) ==
    /\ calls[c].pc = "idle"
    /\ \A b \in Calls : b < c => calls[b].pc # "idle"
    /\ Len(wire) < MaxWire
    /\ \E cs \in ChunkLists :
          IF ws # "open"
          THEN /\ calls' = [calls EXCEPT ![c] = [pc |-> "rejected", chunks |-> cs,
                                                 i |-> 0, error |-> NotConnected]]
               /\ UNCHANGED << listeners, wire >>
          ELSE LET st == RunLoop([calls |-> [calls EXCEPT ![c].chunks = cs],
                                  listeners |-> listeners,
                                  wire |-> Append(wire, Sent(c, "start_session", Len(cs)))],
                                 c, 0)
               IN  /\ calls' = st.calls
                   /\ listeners' = st.listeners
                   /\ wire' = st.wire
    /\ UNCHANGED << ws, textVars, loopVars, connVars, stageVars, voiceVars >>

\* a message event: the socket's onmessage shows a notice, then every handler
\* the waiting calls added runs, and the calls it resolved go on
OnMessage(status, message) ==
    /\ ws = "open"
    /\ Len(SelectSeq(wire, LAMBDA e : e.kind = "recv")) < MaxMessages
    /\ LET resolves == HandlerResolves(status)
           rejects == ~resolves /\ HandlerRejects(status)
           st == [calls |-> [c \in Calls |->
                               IF rejects /\ \E n \in 1..Len(listeners) : listeners[n] = c
                               THEN [calls[c] EXCEPT !.pc = "rejected", !.error = message]
                               ELSE calls[c]],
                  listeners |-> IF resolves \/ rejects THEN <<>> ELSE listeners,
                  wire |-> Append(wire, Received(status, message))]
           after == ResumeAll(st, IF resolves THEN listeners ELSE <<>>)
       IN  /\ calls' = after.calls
           /\ listeners' = after.listeners
           /\ wire' = after.wire
    /\ UNCHANGED << ws, textVars, loopVars, connVars, stageVars, voiceVars >>

\* the plugin loaded with the settings the backend runs are made under
InitBackend ==
    /\ Init
    /\ settings.maxChunkLength = 1
    /\ ~settings.respectParagraphs
    /\ ~settings.useDistinctVoices

NextBackend ==
    \/ ConnectWebSocket
    \/ \E c \in Calls : BackendSpeakText(c)
    \/ \E status \in Statuses :
          OnMessage(status, IF status = "error" THEN BackendError ELSE "")

SpecBackend == InitBackend /\ [][NextBackend]_vars

\* ------------------------------------------------------------------------
\* BackendManager's connection: startBackend, connectWebSocket, stopBackend
\* ------------------------------------------------------------------------

maxReconnectAttempts == 5

\* a socket this.ws stops referring to keeps its handlers; w is its readyState
Orphan(s, w) ==
    IF w = "null" THEN s ELSE [s EXCEPT ![w] = @ + 1]

\* connectWebSocket: returns when this.ws is OPEN, else this.ws becomes a new
\* socket; conn is [ws, sockets]
connectWebSocket(conn) ==
    IF conn.ws = "open" THEN conn
    ELSE [ws |-> "connecting", sockets |-> Orphan(conn.sockets, conn.ws)]

\* what goes on at once: waiting starts, pending timers and live sockets
Pending ==
    starting + Len(timers) + sockets.connecting + sockets.open + sockets.closing
    + (IF ws = "null" THEN 0 ELSE 1)

\* the timers after onclose: a reconnect is scheduled with the present delay
\* while the process is set and attempts are left
ScheduleReconnect ==
    IF pythonProcess /\ reconnectAttempts < maxReconnectAttempts
    THEN Append(timers, reconnectTimeout)
    ELSE timers

\* startBackend up to its 2000 ms wait: the settings file is written and the
\* process spawned.  The settings tab calls it while not connected.
StartBackend ==
    /\ loaded
    /\ ws # "open"
    /\ Pending < MaxPending
    /\ pythonProcess' = TRUE
    /\ starting' = starting + 1
    /\ UNCHANGED << reconnectAttempts, reconnectTimeout, timers, sockets, stopping, loaded, attempt >>
    /\ UNCHANGED << textVars, loopVars, backendVars, stageVars, voiceVars >>

\* startBackend after its wait: connectWebSocket
StartConnects ==
    /\ starting > 0
    /\ starting' = starting - 1
    /\ LET conn == connectWebSocket([ws |-> ws, sockets |-> sockets])
       IN  /\ ws' = conn.ws
           /\ sockets' = conn.sockets
    /\ UNCHANGED << pythonProcess, reconnectAttempts, reconnectTimeout, timers, stopping, loaded, attempt >>
    /\ UNCHANGED << calls, listeners, wire, textVars, loopVars, stageVars, voiceVars >>

\* the callback of the reconnect timer k
TimerFires(k) ==
    /\ k \in 1..Len(timers)
    /\ reconnectAttempts' = reconnectAttempts + 1
    /\ reconnectTimeout' = reconnectTimeout * 2
    /\ timers' = SubSeq(timers, 1, k - 1) \o SubSeq(timers, k + 1, Len(timers))
    /\ attempt' = [n |-> reconnectAttempts + 1, delay |-> timers[k]]
    /\ LET conn == connectWebSocket([ws |-> ws, sockets |-> sockets])
       IN  /\ ws' = conn.ws
           /\ sockets' = conn.sockets
    /\ UNCHANGED << pythonProcess, starting, stopping, loaded >>
    /\ UNCHANGED << calls, listeners, wire, textVars, loopVars, stageVars, voiceVars >>

\* onopen of the socket this.ws refers to
SocketOpens ==
    /\ ws = "connecting"
    /\ Len(wire) < MaxWire
    /\ ws' = "open"
    /\ reconnectAttempts' = 0
    /\ reconnectTimeout' = 1000
    /\ wire' = Append(wire, Sent(0, "ping", 0))
    /\ UNCHANGED << pythonProcess, timers, sockets, starting, stopping, loaded, attempt >>
    /\ UNCHANGED << calls, listeners, textVars, loopVars, stageVars, voiceVars >>

\* onerror of the socket this.ws refers to: closed and dropped while the
\* process is set; its close event follows
SocketErrors ==
    /\ ws \in {"connecting", "open"}
    /\ IF pythonProcess
       THEN /\ ws' = "null"
            /\ sockets' = Orphan(sockets, "closing")
       ELSE /\ ws' = "closing"
            /\ UNCHANGED sockets
    /\ UNCHANGED << pythonProcess, reconnectAttempts, reconnectTimeout, timers, starting, stopping, loaded, attempt >>
    /\ UNCHANGED << calls, listeners, wire, textVars, loopVars, stageVars, voiceVars >>

\* onclose of the socket this.ws refers to; a closed socket has no message
\* event any more, so the handlers the waiting calls added to it never run
SocketCloses ==
    /\ ws \in {"open", "closing"}
    /\ ws' = "null"
    /\ listeners' = <<>>
    /\ timers' = ScheduleReconnect
    /\ UNCHANGED << pythonProcess, reconnectAttempts, reconnectTimeout, sockets, starting, stopping, loaded, attempt >>
    /\ UNCHANGED << calls, wire, textVars, loopVars, stageVars, voiceVars >>

\* onopen of a socket this.ws no longer refers to: the ping goes to this.ws
OrphanOpens ==
    /\ sockets.connecting > 0
    /\ sockets' = [sockets EXCEPT !.connecting = @ - 1, !.open = @ + 1]
    /\ reconnectAttempts' = 0
    /\ reconnectTimeout' = 1000
    /\ IF ws = "open"
       THEN /\ Len(wire) < MaxWire
            /\ wire' = Append(wire, Sent(0, "ping", 0))
       ELSE UNCHANGED wire
    /\ UNCHANGED << pythonProcess, timers, starting, stopping, loaded, attempt >>
    /\ UNCHANGED << ws, calls, listeners, textVars, loopVars, stageVars, voiceVars >>

\* onerror of a socket this.ws no longer refers to: it closes this.ws
OrphanErrors(state) ==
    /\ state \in {"connecting", "open"}
    /\ sockets[state] > 0
    /\ LET failed == [sockets EXCEPT ![state] = @ - 1, !.closing = @ + 1]
       IN  IF pythonProcess
           THEN /\ ws' = "null"
                /\ sockets' = IF ws = "null" THEN failed ELSE Orphan(failed, "closing")
           ELSE /\ sockets' = failed
                /\ UNCHANGED ws
    /\ UNCHANGED << pythonProcess, reconnectAttempts, reconnectTimeout, timers, starting, stopping, loaded, attempt >>
    /\ UNCHANGED << calls, listeners, wire, textVars, loopVars, stageVars, voiceVars >>

\* onclose of a socket this.ws no longer refers to: it sets this.ws to null
OrphanCloses(state) ==
    /\ state \in {"open", "closing"}
    /\ sockets[state] > 0
    /\ sockets' = Orphan([sockets EXCEPT ![state] = @ - 1], ws)
    /\ ws' = "null"
    /\ timers' = ScheduleReconnect
    /\ UNCHANGED << pythonProcess, reconnectAttempts, reconnectTimeout, starting, stopping, loaded, attempt >>
    /\ UNCHANGED << calls, listeners, wire, textVars, loopVars, stageVars, voiceVars >>

\* stopBackend from its 100 ms wait on: the socket is closed and dropped, the
\* process killed; w is this.ws
StopCloses(w) ==
    /\ ws' = "null"
    /\ sockets' = IF w = "null" THEN sockets ELSE Orphan(sockets, "closing")
    /\ stopping' = IF pythonProcess
                   THEN [phase |-> "killed", exit |-> TRUE, fallback |-> TRUE]
                   ELSE NotStopping

\* stopBackend up to its first wait
StopBackendCall ==
    /\ stopping = NotStopping
    /\ IF ws = "open"
       THEN /\ Len(wire) < MaxWire
            /\ wire' = Append(wire, Sent(0, "stop", 0))
            /\ stopping' = [stopping EXCEPT !.phase = "sent"]
            /\ UNCHANGED << ws, sockets >>
       ELSE /\ StopCloses(ws)
            /\ UNCHANGED wire

\* the settings tab calls stopBackend while connected
StopBackend ==
    /\ loaded
    /\ ws = "open"
    /\ StopBackendCall
    /\ UNCHANGED << pythonProcess, reconnectAttempts, reconnectTimeout, timers, starting, loaded, attempt >>
    /\ UNCHANGED << calls, listeners, textVars, loopVars, stageVars, voiceVars >>

\* onunload: stopSpeech, which sends a stop command to an open socket, then
\* stopBackend
OnUnload ==
    /\ loaded
    /\ loaded' = FALSE
    /\ stopping = NotStopping
    /\ IF ws = "open"
       THEN /\ Len(wire) + 1 < MaxWire
            /\ wire' = wire \o << Sent(0, "stop", 0), Sent(0, "stop", 0) >>
            /\ stopping' = [stopping EXCEPT !.phase = "sent"]
            /\ UNCHANGED << ws, sockets >>
       ELSE /\ StopCloses(ws)
            /\ UNCHANGED wire
    /\ UNCHANGED << pythonProcess, reconnectAttempts, reconnectTimeout, timers, starting, attempt >>
    /\ UNCHANGED << calls, listeners, textVars, loopVars, stageVars, voiceVars >>

\* stopBackend after its 100 ms wait
StopContinues ==
    /\ stopping.phase = "sent"
    /\ StopCloses(ws)
    /\ UNCHANGED << pythonProcess, reconnectAttempts, reconnectTimeout, timers, starting, loaded, attempt >>
    /\ UNCHANGED << calls, listeners, wire, textVars, loopVars, stageVars, voiceVars >>

\* the 'exit' event of the killed process
ProcessExits ==
    /\ stopping.exit
    /\ pythonProcess' = FALSE
    /\ stopping' = [stopping EXCEPT !.phase = "no", !.exit = FALSE]
    /\ UNCHANGED << reconnectAttempts, reconnectTimeout, timers, sockets, starting, loaded, attempt >>
    /\ UNCHANGED << textVars, loopVars, backendVars, stageVars, voiceVars >>

\* the 1000 ms fallback timer of stopBackend
FallbackFires ==
    /\ stopping.fallback
    /\ pythonProcess' = FALSE
    /\ stopping' = [stopping EXCEPT !.phase = "no", !.fallback = FALSE]
    /\ UNCHANGED << reconnectAttempts, reconnectTimeout, timers, sockets, starting, loaded, attempt >>
    /\ UNCHANGED << textVars, loopVars, backendVars, stageVars, voiceVars >>

NextConnect ==
    \/ StartBackend
    \/ StartConnects
    \/ \E k \in 1..MaxPending : TimerFires(k)
    \/ SocketOpens
    \/ SocketErrors
    \/ SocketCloses
    \/ OrphanOpens
    \/ \E state \in {"connecting", "open"} : OrphanErrors(state)
    \/ \E state \in {"open", "closing"} : OrphanCloses(state)
    \/ StopBackend
    \/ OnUnload
    \/ StopContinues
    \/ ProcessExits
    \/ FallbackFires

SpecConnect == InitBackend /\ [][NextConnect]_vars

\* ------------------------------------------------------------------------
\* speakText calls on a connection that can close
\* ------------------------------------------------------------------------

\* BackendManager.stopSpeech with an open socket: a stop command is sent
StopSpeech ==
    /\ ws = "open"
    /\ Len(wire) < MaxWire
    /\ wire' = Append(wire, Sent(0, "stop", 0))
    /\ UNCHANGED << ws, calls, listeners, textVars, loopVars, connVars, stageVars, voiceVars >>

NextSession ==
    \/ ConnectWebSocket
    \/ \E c \in Calls : BackendSpeakText(c)
    \/ \E status \in Statuses :
          OnMessage(status, IF status = "error" THEN BackendError ELSE "")
    \/ StopSpeech
    \/ SocketCloses

SpecSession == InitBackend /\ [][NextSession]_vars

\* ------------------------------------------------------------------------
\* splitIntoSegments and splitPreservingQuotes, stage by stage
\* ------------------------------------------------------------------------

\* the pieces of the paragraphs: a letter, the straight and a typographic
\* quotation mark, the asterisk, 'ktts' + letter with no mark after it,
\* tokens with a code in no table and with a code of the stock table, a
\* sentence terminator and a space
ParagraphPieces ==
    { <<"a">>, <<QUOTE>>, <<"U+201C">>, <<ASTERISK>>, Ktts \o <<"a">>,
      Ktts \o <<"a", QUOTE>>, Ktts \o Sky \o <<QUOTE>>, <<".">>, <<SPACE>> }

\* the paragraphs of at most n pieces splitIntoSegments is called with
ParagraphInputs(n) == TextsOf(ParagraphPieces, n)

\* the texts of at most n characters splitPreservingQuotes is called with
SentenceInputs(n) ==
    TextsOf({ <<"a">>, <<".">>, <<SPACE>>, <<TAB>>, <<NEWLINE>>, <<QUOTE>> }, n)

\* splitIntoSegments up to its while loop: preprocessText, lines 148-156
Preprocess ==
    /\ stage = "idle"
    /\ \E t \in ParagraphInputs(MaxParagraph) :
          /\ paragraphArg' = t
          /\ cleaned' = preprocessText(t, settings, voiceMap)
    /\ scan' = ScanInit
    /\ stage' = "scan"
    /\ UNCHANGED << segmentList, sentence, units >>
    /\ UNCHANGED << textVars, loopVars, backendVars, connVars, voiceVars >>

\* one pass through the while loop of splitIntoSegments, lines 158-192
ScanStep ==
    /\ stage = "scan"
    /\ scan.i < Len(cleaned.text)
    /\ scan' = SegmentStep(cleaned.text, cleaned.voiceAssignments, scan)
    /\ UNCHANGED << stage, paragraphArg, cleaned, segmentList, sentence, units >>
    /\ UNCHANGED << textVars, loopVars, backendVars, connVars, voiceVars >>

\* the loop test fails: the remaining text is pushed and the list returned,
\* lines 194-199
ScanReturns ==
    /\ stage = "scan"
    /\ ~(scan.i < Len(cleaned.text))
    /\ segmentList' = PushSegment(scan.segments, scan.currentText, scan.currentType)
    /\ stage' = "segmented"
    /\ UNCHANGED << paragraphArg, cleaned, scan, sentence, units >>
    /\ UNCHANGED << textVars, loopVars, backendVars, connVars, voiceVars >>

\* splitPreservingQuotes(text)
SplitPreservingQuotes ==
    /\ stage = "idle"
    /\ \E t \in SentenceInputs(MaxSentence) :
          /\ sentence' = t
          /\ units' = splitPreservingQuotes(t)
    /\ stage' = "units"
    /\ UNCHANGED << paragraphArg, cleaned, scan, segmentList >>
    /\ UNCHANGED << textVars, loopVars, backendVars, connVars, voiceVars >>

\* splitIntoChunks, lines 284-287: splitPreservingQuotes(segment.text) for
\* the segment k of the list splitIntoSegments returned
SplitSegment(k) ==
    /\ stage = "segmented"
    /\ k \in 1..Len(segmentList)
    /\ sentence' = segmentList[k].text
    /\ units' = splitPreservingQuotes(segmentList[k].text)
    /\ stage' = "segment units"
    /\ UNCHANGED << paragraphArg, cleaned, scan, segmentList >>
    /\ UNCHANGED << textVars, loopVars, backendVars, connVars, voiceVars >>

\* the caller is done with the list
StageDone ==
    /\ stage \in {"segmented", "units", "segment units"}
    /\ stage' = "idle"
    /\ paragraphArg' = <<>>
    /\ cleaned' = [text |-> <<>>, voiceAssignments |-> <<>>]
    /\ scan' = ScanInit
    /\ segmentList' = <<>>
    /\ sentence' = <<>>
    /\ units' = <<>>
    /\ UNCHANGED << textVars, loopVars, backendVars, connVars, voiceVars >>

NextStages ==
    \/ Preprocess
    \/ ScanStep
    \/ ScanReturns
    \/ SplitPreservingQuotes
    \/ \E k \in 1..MaxParagraph : SplitSegment(k)
    \/ StageDone

SpecStages == InitBackend /\ [][NextStages]_vars

\* ------------------------------------------------------------------------
\* The voice table: updateVoiceMap over a voices directory, getVoiceFromCode
\* ------------------------------------------------------------------------

\* the file names of the directories: a stock voice's own file, a voice with
\* a stock short name under another prefix, a voice named without a prefix,
\* a new voice, and a file that is no voice
VoiceFileNames ==
    { <<"a","f","_","b","e","l","l","a",".","p","t">>,
      <<"b","m","_","b","e","l","l","a",".","p","t">>,
      <<"s","k","y",".","p","t">>,
      <<"x","x","_","n","e","w",".","p","t">>,
      <<"n","o","t","e","s",".","t","x","t">> }

\* what updateVoiceMap finds: no voicesPath or a readdirSync that throws
\* (ok = FALSE), or a listing of at most n files
Directories(n) ==
    { [ok |-> FALSE, files |-> <<>>] }
      \cup { [ok |-> TRUE, files |-> fs] : fs \in UNION { [1..k -> VoiceFileNames] : k \in 0..n } }

\* the codes getVoiceFromCode is asked for
VoiceCodes ==
    { <<>>, <<"b","e","l","l","a">>, <<"s","k","y">>, <<"n","e","w">>, <<"z">> }

\* new TextProcessor(settings): the constructor calls updateVoiceMap
UpdateVoiceMap ==
    /\ \E dir \in Directories(MaxFiles) :
          /\ voicesDir' = dir
          /\ voiceMap' = updateVoiceMap(dir)
    /\ voiceCode' = <<>>
    /\ resolvedVoice' = <<>>
    /\ UNCHANGED << settings, pc, text, chunks, loopVars, backendVars, connVars, stageVars >>

\* a call of getVoiceFromCode
GetVoiceFromCode ==
    /\ \E c \in VoiceCodes :
          /\ voiceCode' = c
          /\ resolvedVoice' = getVoiceFromCode(c, settings, voiceMap)
    /\ UNCHANGED << voicesDir, textVars, loopVars, backendVars, connVars, stageVars >>

NextVoices ==
    \/ UpdateVoiceMap
    \/ GetVoiceFromCode

SpecVoices == InitBackend /\ [][NextVoices]_vars

\* ------------------------------------------------------------------------
\* What the claims speak of, read off the input text itself
\* ------------------------------------------------------------------------

\* the code points the plugin takes for a quotation mark
QuotationMarks == {"U+201C", "U+201D", "U+201E", "U+201F", QUOTE}

\* first position > i (counting from 1) that holds no letter
RECURSIVE LetterRunStop(_, _)
LetterRunStop(t, i) ==
    IF i < Len(t) /\ IsLetter(t[i + 1]) THEN LetterRunStop(t, i + 1) ELSE i + 1

\* the positions j <= i at which 'ktts' and at least one more letter start a
\* token that covers position i: letters only from j to the quotation mark
TokenStarts(t, i) ==
    IF ~IsLetter(t[i]) THEN {}
    ELSE LET e == LetterRunStop(t, i)
         IN  IF e <= Len(t) /\ t[e] \in QuotationMarks
             THEN { j \in 1..i :
                      /\ \A m \in j..i : IsLetter(t[m])
                      /\ j + 4 < e
                      /\ ToLowerCase(SubSeq(t, j, j + 3)) = Ktts }
             ELSE {}

\* position i lies in a voice-code token: 'ktts', letters, then a quotation mark
InToken(t, i) == TokenStarts(t, i) # {}

\* the code letters of the token that ends at position i
TokenCode(t, i) ==
    LET j == CHOOSE x \in TokenStarts(t, i) : \A y \in TokenStarts(t, i) : x <= y
    IN  ToLowerCase(SubSeq(t, j + 4, i))

\* One left-to-right reading of the text.  rd.marks[i] says of position i:
\*   para  the number of blank-line boundaries before it (0 when paragraphs
\*         are not respected); a boundary is a run of whitespace with at
\*         least two line breaks
\*   kept  FALSE for whitespace, quotation marks, asterisks outside a
\*         quotation and the characters of a token
\*   cls   "coded"  inside a quotation whose opening mark follows a token,
\*         "quoted" inside any other quotation,
\*         "emph"   outside a quotation, after an odd number of asterisks,
\*         "plain"  outside both
\*   code  the code letters of the token of a "coded" quotation
\*   mark  "quote" or "asterisk" for a delimiter, "" otherwise
RECURSIVE Reading(_, _, _, _)
Reading(t, rp, i, rd) ==
    IF i > Len(t) THEN rd.marks
    ELSE LET c == t[i]
             cls == IF rd.inQ THEN (IF rd.coded THEN "coded" ELSE "quoted")
                    ELSE IF rd.inA THEN "emph" ELSE "plain"
             mk(kept, mark) == [para |-> rd.para, kept |-> kept, cls |-> cls,
                                code |-> rd.code, mark |-> mark, ch |-> c]
         IN  IF c \in Whitespace
             THEN LET nl == IF c = NEWLINE THEN rd.nl + 1 ELSE rd.nl
                      brk == rp /\ c = NEWLINE /\ nl = 2
                  IN  Reading(t, rp, i + 1,
                        [rd EXCEPT !.nl = nl,
                                   !.para = IF brk THEN rd.para + 1 ELSE rd.para,
                                   !.inQ = IF brk THEN FALSE ELSE rd.inQ,
                                   !.inA = IF brk THEN FALSE ELSE rd.inA,
                                   !.marks = Append(rd.marks, mk(FALSE, ""))])
             ELSE IF c \in QuotationMarks
             THEN LET opens == ~rd.inQ
                      tok == opens /\ i > 1 /\ InToken(t, i - 1)
                  IN  Reading(t, rp, i + 1,
                        [rd EXCEPT !.nl = 0,
                                   !.inQ = opens,
                                   !.coded = tok,
                                   !.code = IF tok THEN TokenCode(t, i - 1) ELSE <<>>,
                                   !.marks = Append(rd.marks, mk(FALSE, "quote"))])
             ELSE IF c = ASTERISK /\ ~rd.inQ
             THEN Reading(t, rp, i + 1,
                        [rd EXCEPT !.nl = 0,
                                   !.inA = ~rd.inA,
                                   !.marks = Append(rd.marks, mk(FALSE, "asterisk"))])
             ELSE Reading(t, rp, i + 1,
                        [rd EXCEPT !.nl = 0,
                                   !.marks = Append(rd.marks, mk(~InToken(t, i), ""))])

Marks(t, rp) ==
    Reading(t, rp, 1, [para |-> 0, nl |-> 0, inQ |-> FALSE, inA |-> FALSE,
                       coded |-> FALSE, code |-> <<>>, marks |-> <<>>])

\* the delimiter that started the span of position i has its partner after i
Closed(marks, i, mark) ==
    \E j \in (i + 1)..Len(marks) :
        marks[j].mark = mark /\ marks[j].para = marks[i].para

\* the characters the engine is to speak, in order, with what is known of each
Spoken(t, rp) ==
    LET marks == Marks(t, rp)
        withClosed == [i \in 1..Len(marks) |->
                         [para |-> marks[i].para, kept |-> marks[i].kept,
                          cls |-> marks[i].cls, code |-> marks[i].code,
                          ch |-> marks[i].ch,
                          closed |-> IF marks[i].cls \in {"coded", "quoted"}
                                     THEN Closed(marks, i, "quote")
                                     ELSE IF marks[i].cls = "emph"
                                     THEN Closed(marks, i, "asterisk")
                                     ELSE TRUE]]
    IN  SelectSeq(withClosed, LAMBDA m : m.kept)

\* the characters of the chunks other than whitespace, in order, each with the
\* index and the voice of its chunk
ChunkChars(cs) ==
    Flatten([k \in 1..Len(cs) |->
               LET body == SelectSeq(cs[k].text, LAMBDA c : c \notin Whitespace)
               IN  [n \in 1..Len(body) |->
                      [ch |-> body[n], chunk |-> k, voice |-> cs[k].voice]]])

\* the characters of a sequence of records
Chars(rs) == [n \in 1..Len(rs) |-> rs[n].ch]

\* the chunks say exactly the characters to speak, in order
SameChars(t, st, cs) == Chars(ChunkChars(cs)) = Chars(Spoken(t, st.respectParagraphs))

\* ------------------------------------------------------------------------
\* Claims
\* ------------------------------------------------------------------------

HasWhitespace(s) == \E n \in 1..Len(s) : s[n] \in Whitespace

\* C1: every chunk returned by splitIntoChunks has a text of at most
\* maxChunkLength characters, unless the text is one run without whitespace.
C1_LengthBound ==
    pc = "chunked" =>
        \A k \in 1..Len(chunks) :
            \/ Len(chunks[k].text) <= settings.maxChunkLength
            \/ ~HasWhitespace(chunks[k].text)

\* a chunk packed from several units that fills the limit exactly
C1_Witness ==
    /\ pc = "chunked"
    /\ \E k \in 1..Len(chunks) :
          /\ Len(chunks[k].text) = settings.maxChunkLength
          /\ HasWhitespace(chunks[k].text)

\* C2: every chunk returned by splitIntoChunks has a text that is not empty
\* and has no whitespace at either end.
C2_NonEmptyTrimmed ==
    pc = "chunked" =>
        \A k \in 1..Len(chunks) :
            /\ chunks[k].text # <<>>
            /\ Trim(chunks[k].text) = chunks[k].text

\* C3: the chunk texts in order, whitespace deleted, are the input with its
\* whitespace, quotation marks, asterisks outside quotations and voice-code
\* tokens deleted.  A quotation is read within its paragraph when paragraphs
\* are respected.
C3_NoLoss ==
    pc = "chunked" => SameChars(text, settings, chunks)

\* a text with a token, whitespace and a delimiter, said in several chunks
C3_Witness ==
    /\ pc = "chunked"
    /\ \E i \in 1..Len(text) : InToken(text, i)
    /\ HasWhitespace(text)
    /\ \E j, k \in 1..Len(chunks) :
          j < k /\ chunks[j].text # <<>> /\ chunks[k].text # <<>>
    /\ SameChars(text, settings, chunks)

\* C4: with respectParagraphs, the characters of one chunk all come from one
\* paragraph of the input.
C4_ParagraphIsolation ==
    (pc = "chunked" /\ settings.respectParagraphs) =>
        LET sp == Spoken(text, TRUE)
            cc == ChunkChars(chunks)
        IN  /\ Chars(cc) = Chars(sp)
            /\ \A i \in 1..(Len(cc) - 1) :
                  cc[i].chunk = cc[i + 1].chunk => sp[i].para = sp[i + 1].para

\* two paragraphs that one chunk could hold, in two chunks
C4_Witness ==
    /\ pc = "chunked"
    /\ settings.respectParagraphs
    /\ LET sp == Spoken(text, TRUE)
       IN  /\ \E i \in 1..Len(sp) : sp[i].para = 1
           /\ Len(sp) + 1 <= settings.maxChunkLength
    /\ Len(chunks) = 2

\* the text is 'ktts', a code of the voice table, and a word in quotation
\* marks (a word of letters that holds no token itself)
IsCodedWord(t, c, w) ==
    /\ t = Ktts \o c \o <<QUOTE>> \o w \o <<QUOTE>>
    /\ c # <<>> /\ \A n \in 1..Len(c) : IsLetter(c[n])
    /\ w # <<>> /\ \A n \in 1..Len(w) : IsLetter(w[n])
    /\ \A n \in (Len(t) - Len(w))..(Len(t) - 1) : ~InToken(t, n)

\* the position of the first straight quotation mark of t, Len(t) + 1 if none
RECURSIVE FirstQuote(_, _)
FirstQuote(t, i) ==
    IF i > Len(t) \/ t[i] = QUOTE THEN i ELSE FirstQuote(t, i + 1)

\* C5: for a short name c of the voice table and a limit larger than the
\* quoted word, 'ktts' + c + the quoted word gives exactly one chunk: the word,
\* in the voice the table maps c to.
C5_InlineVoice ==
    pc = "chunked" =>
        LET q == FirstQuote(text, 1)
            c == SubSeq(text, 5, q - 1)
            w == SubSeq(text, q + 1, Len(text) - 1)
        IN  (/\ q < Len(text)
             /\ IsCodedWord(text, c, w)
             /\ c \in DOMAIN voiceMap
             /\ settings.maxChunkLength > Len(w))
            => chunks = << [text |-> w, voice |-> voiceMap[c]] >>

\* kttssky"hi" gives the one chunk hi in the voice af_sky
C5_Witness ==
    /\ pc = "chunked"
    /\ text = Ktts \o Sky \o <<QUOTE, "h", "i", QUOTE>>
    /\ chunks = << [text |-> <<"h", "i">>, voice |-> StockVoices[10]] >>

\* the class of chunk k: the class of its first character, or, for a chunk
\* without characters, of the first character after it ("none" at the end)
ChunkClass(sp, cs, k) ==
    LET before == Len(ChunkChars(SubSeq(cs, 1, k - 1)))
    IN  IF before < Len(sp) THEN sp[before + 1].cls ELSE "none"

\* C6: a voice code that is in no table resolves to the default voice: the
\* characters of a quotation whose opening mark follows 'ktts' + such a code
\* are in chunks of voice selectedVoice, whatever useDistinctVoices is.
C6_UnknownCodeDefault ==
    pc = "chunked" =>
        LET sp == Spoken(text, settings.respectParagraphs)
            cc == ChunkChars(chunks)
        IN  /\ Len(cc) = Len(sp)
            /\ \A i \in 1..Len(cc) :
                  (sp[i].cls = "coded" /\ sp[i].code \notin DOMAIN voiceMap)
                  => cc[i].voice = settings.selectedVoice

\* the settings that differ from st in the special-text-voice settings only
SpecialVoiceVariants(st) ==
    { [st EXCEPT !.useDistinctVoices = dv, !.quotedTextVoice = q,
                 !.asteriskTextVoice = a] :
      dv \in BOOLEAN, q \in {af_sarah, am_adam}, a \in {af_sarah, am_adam} }

\* C7: two runs on the same text that differ only in useDistinctVoices,
\* quotedTextVoice and asteriskTextVoice give the same voice to every
\* character of a quotation whose opening mark follows a ktts token.
C7_InlineIndependent ==
    pc = "chunked" =>
        LET sp == Spoken(text, settings.respectParagraphs)
            cc == ChunkChars(chunks)
        IN  \A other \in SpecialVoiceVariants(settings) :
                LET oc == ChunkChars(splitIntoChunks(text, other, voiceMap))
                IN  /\ Len(oc) = Len(cc)
                    /\ Len(sp) = Len(cc)
                    /\ \A i \in 1..Len(cc) :
                          sp[i].cls = "coded" => oc[i].voice = cc[i].voice

\* C8: with useDistinctVoices, text between a pair of asterisks and outside
\* any quotation is in voice asteriskTextVoice, text inside a pair of
\* quotation marks with no inline code in voice quotedTextVoice, and text
\* outside both in voice selectedVoice.
C8_DistinctVoices ==
    (pc = "chunked" /\ settings.useDistinctVoices) =>
        LET sp == Spoken(text, settings.respectParagraphs)
            cc == ChunkChars(chunks)
        IN  /\ Len(cc) = Len(sp)
            /\ \A i \in 1..Len(cc) :
                  sp[i].closed =>
                    /\ sp[i].cls = "emph" => cc[i].voice = settings.asteriskTextVoice
                    /\ sp[i].cls = "quoted" => cc[i].voice = settings.quotedTextVoice
                    /\ sp[i].cls = "plain" => cc[i].voice = settings.selectedVoice

\* C9: without useDistinctVoices, every chunk that is not of a quotation whose
\* opening mark follows a ktts token has voice selectedVoice.
C9_SingleVoice ==
    (pc = "chunked" /\ ~settings.useDistinctVoices) =>
        LET sp == Spoken(text, settings.respectParagraphs)
            cc == ChunkChars(chunks)
        IN  /\ Len(cc) = Len(sp)
            /\ \A i \in 1..Len(cc) :
                  sp[i].cls # "coded" => cc[i].voice = settings.selectedVoice
            /\ \A k \in 1..Len(chunks) :
                  ChunkClass(sp, chunks, k) \notin {"coded", "none"}
                  => chunks[k].voice = settings.selectedVoice

\* a quotation without a code and an emphasis, both in the default voice
C9_Witness ==
    /\ pc = "chunked"
    /\ ~settings.useDistinctVoices
    /\ settings.quotedTextVoice # settings.selectedVoice
    /\ settings.asteriskTextVoice # settings.selectedVoice
    /\ LET sp == Spoken(text, settings.respectParagraphs)
       IN  /\ \E i \in 1..Len(sp) : sp[i].cls = "quoted"
           /\ \E i \in 1..Len(sp) : sp[i].cls = "emph"
    /\ \E j, k \in 1..Len(chunks) :
          j < k /\ chunks[j].text # <<>> /\ chunks[k].text # <<>>
    /\ \A k \in 1..Len(chunks) : chunks[k].voice = settings.selectedVoice

\* C10: no voice assignment is dropped: in every paragraph the segmenter ends
\* its scan with the assignment index at the number of assignments, and the
\* characters of every quotation whose opening mark follows a ktts token are
\* in the voice of that token.
C10_AssignmentsConsumed ==
    pc = "chunked" =>
        LET paragraphs == Paragraphs(text, settings)
            sp == Spoken(text, settings.respectParagraphs)
            cc == ChunkChars(chunks)
        IN  /\ \A k \in 1..Len(paragraphs) :
                  ScanEnd(paragraphs[k], settings, voiceMap).idx
                    = Len(preprocessText(paragraphs[k], settings, voiceMap).voiceAssignments)
            /\ Len(cc) = Len(sp)
            /\ \A i \in 1..Len(cc) :
                  sp[i].cls = "coded"
                  => cc[i].voice = (IF sp[i].code \in DOMAIN voiceMap
                                    THEN voiceMap[sp[i].code]
                                    ELSE settings.selectedVoice)

\* the segments the scan of a paragraph pushed at a closing quotation mark:
\* inside a quotation only a quotation mark ends a segment
ClosedQuotations(paragraph, st, vmap) ==
    SelectSeq(ScanEnd(paragraph, st, vmap).segments,
              LAMBDA sg : sg.type.kind \in {"quoted", "quoted:"})

\* C11: no sentence unit ends at a '.', '!' or '?' between an opening
\* quotation mark and its closing mark: the text of every closed quotation is
\* handed to the packer as one sentence unit, whatever maxChunkLength is.
C11_QuoteAwareUnits ==
    pc = "chunked" =>
        LET paragraphs == Paragraphs(text, settings)
        IN  \A k \in 1..Len(paragraphs) :
                LET qs == ClosedQuotations(paragraphs[k], settings, voiceMap)
                IN  \A n \in 1..Len(qs) :
                        Len(splitPreservingQuotes(qs[n].text)) <= 1

\* a token: characters that are neither whitespace, sentence terminators nor
\* delimiters
IsPlainToken(t) ==
    /\ t # <<>>
    /\ \A n \in 1..Len(t) :
          t[n] \notin Whitespace \cup Terminators \cup QuotationMarks \cup {ASTERISK}

\* C12: a single token of L > maxChunkLength = M characters is returned as
\* ceil(L / M) chunks, the consecutive pieces of M characters of the token,
\* the last one holding what is left (1 to M characters).
C12_HardSplit ==
    (pc = "chunked" /\ IsPlainToken(text) /\ Len(text) > settings.maxChunkLength) =>
        LET L == Len(text)
            M == settings.maxChunkLength
        IN  /\ Len(chunks) = (L + M - 1) \div M
            /\ \A k \in 1..Len(chunks) :
                  chunks[k].text = SubSeq(text, (k - 1) * M + 1,
                                          IF k * M < L THEN k * M ELSE L)

\* a token cut into full pieces and a shorter last one
C12_Witness ==
    /\ pc = "chunked"
    /\ IsPlainToken(text)
    /\ Len(text) > settings.maxChunkLength
    /\ Len(text) % settings.maxChunkLength # 0
    /\ Len(chunks) >= 2
    /\ Len(chunks[1].text) = settings.maxChunkLength
    /\ Len(chunks[Len(chunks)].text) < settings.maxChunkLength

\* C13: every iteration of the forced split loop leaves a strictly shorter
\* remainingSentence, so the loop ends for every unit and every limit >= 1.
C13_LoopShortens ==
    [][(loopPc = "loop" /\ loopPc' = "loop")
         => Len(remainingSentence') < Len(remainingSentence)]_vars

\* the loop has cut at a space at index 0 (pushing an empty text) and has
\* come to its end
C13_Witness ==
    /\ loopPc = "loop"
    /\ \E k \in 1..Len(pushed) : pushed[k] = <<>>
    /\ Len(remainingSentence) <= settings.maxChunkLength
    /\ remainingSentence # <<>>

\* the text the scan of a paragraph still buffers at the end of the input
\* while a quotation or an emphasis is open is the last segment, and its
\* type is that of the open delimiter (the quotation, when both are open)
OpenTextFlushed(paragraph, st, vmap) ==
    LET sc == ScanEnd(paragraph, st, vmap)
        segments == splitIntoSegments(paragraph, st, vmap)
    IN  (sc.currentText # <<>> /\ (sc.inQuote \/ sc.inAsterisk)) =>
            /\ segments # <<>>
            /\ segments[Len(segments)].text = sc.currentText
            /\ segments[Len(segments)].type.kind \in
                  (IF sc.inQuote THEN {"quoted", "quoted:"} ELSE {"asterisk"})

\* C14: input with unbalanced delimiters is taken as it is: the text buffered
\* when the input ends inside an open quotation or emphasis is the final
\* segment, of the open type; and a text of nothing but whitespace, quotation
\* marks and asterisks gives no chunk.
C14_GracefulInput ==
    pc = "chunked" =>
        LET paragraphs == Paragraphs(text, settings)
        IN  /\ \A k \in 1..Len(paragraphs) :
                  OpenTextFlushed(paragraphs[k], settings, voiceMap)
            /\ (\A n \in 1..Len(text) :
                  text[n] \in Whitespace \cup QuotationMarks \cup {ASTERISK})
               => chunks = <<>>

\* the number of quotation marks among the first n characters of s
RECURSIVE QuoteCount(_, _)
QuoteCount(s, n) ==
    IF n = 0 THEN 0
    ELSE QuoteCount(s, n - 1) + (IF s[n] = QUOTE THEN 1 ELSE 0)

\* C17: every voice assignment of preprocessText starts at the offset, in the
\* cleaned text, of a quotation mark that opens a quotation: an odd-numbered
\* quotation mark of the cleaned text.
C17_AssignmentAtOpeningMark ==
    pc = "chunked" =>
        LET paragraphs == Paragraphs(text, settings)
        IN  \A k \in 1..Len(paragraphs) :
                LET pre == preprocessText(paragraphs[k], settings, voiceMap)
                IN  \A n \in 1..Len(pre.voiceAssignments) :
                        LET start == pre.voiceAssignments[n].start
                        IN  /\ CharAt(pre.text, start) = QUOTE
                            /\ QuoteCount(pre.text, start + 1) % 2 = 1

\* the scanner's variables before every iteration of the while loop of
\* splitIntoSegments and at its end
RECURSIVE ScanStates(_, _, _)
ScanStates(pt, va, sc) ==
    IF sc.i < Len(pt)
    THEN << sc >> \o ScanStates(pt, va, SegmentStep(pt, va, sc))
    ELSE << sc >>

\* C18: at every step of the scan of splitIntoSegments at most one delimiter
\* state is active: inQuote and inAsterisk are never both true.
C18_ExclusiveStates ==
    pc = "chunked" =>
        LET paragraphs == Paragraphs(text, settings)
        IN  \A k \in 1..Len(paragraphs) :
                LET pre == preprocessText(paragraphs[k], settings, voiceMap)
                    scs == ScanStates(pre.text, pre.voiceAssignments, ScanInit)
                IN  \A n \in 1..Len(scs) : ~(scs[n].inQuote /\ scs[n].inAsterisk)

\* C19: normalizing the quotation marks replaces character by character: the
\* length is kept, every recognized mark becomes the straight mark, every
\* other character stays where it is, and a second pass changes nothing.
C19_NormalizeOneForOne ==
    pc = "chunked" =>
        LET n == NormalizeQuotes(text)
        IN  /\ Len(n) = Len(text)
            /\ \A i \in 1..Len(n) :
                  n[i] = (IF text[i] \in QuotationMarks THEN QUOTE ELSE text[i])
            /\ NormalizeQuotes(n) = n

\* a text with a typographic mark and a letter has been chunked
C19_Witness ==
    /\ pc = "chunked"
    /\ \E i \in 1..Len(text) : text[i] \in QuotationMarks \ {QUOTE}
    /\ \E i \in 1..Len(text) : text[i] = "a"
    /\ NormalizeQuotes(text) # text
    /\ chunks # <<>>

\* the text with the code letters of every token in lower case
LowerCodes(t) ==
    [i \in 1..Len(t) |->
        IF InToken(t, i)
        THEN LET j == CHOOSE x \in TokenStarts(t, i) : \A y \in TokenStarts(t, i) : x <= y
             IN  IF i >= j + 4 THEN ToLower(t[i]) ELSE t[i]
        ELSE t[i]]

IsSpeak(p, c) ==
    wire[p].kind = "send" /\ wire[p].what = "speak" /\ wire[p].call = c

\* wire[r] is a message of the given status
IsReceived(r, status) ==
    wire[r].kind = "recv" /\ wire[r].what = status

\* C15: the speak commands of one speakText call go out one at a time, in
\* the order of the chunks: between any two of them a 'generated' message was
\* received, so no other status lets the next chunk go and at most one speak
\* command of the call is without its 'generated'.
C15_SequentialDispatch ==
    \A c \in Calls : \A p, q \in 1..Len(wire) :
        (p < q /\ IsSpeak(p, c) /\ IsSpeak(q, c)) =>
            /\ wire[p].index < wire[q].index
            /\ \E r \in (p + 1)..(q - 1) : IsReceived(r, "generated")

\* a call has sent two speak commands, with a message of another status and
\* then 'generated' received in between
C15_Witness ==
    \E c \in Calls : \E p, q \in 1..Len(wire) :
        /\ p < q /\ IsSpeak(p, c) /\ IsSpeak(q, c)
        /\ \E r \in (p + 1)..(q - 1) :
              /\ wire[r].kind = "recv"
              /\ wire[r].what \notin {"generated", "error"}
              /\ IsReceived(r + 1, "generated")

\* call c waits at wire position r: its last speak command before r has had
\* neither 'generated' nor 'error' since
WaitsAt(c, r) ==
    \E p \in 1..(r - 1) :
        /\ IsSpeak(p, c)
        /\ \A m \in (p + 1)..(r - 1) :
              ~IsReceived(m, "generated") /\ ~IsReceived(m, "error")

\* C16: an 'error' message received while a call waits for a chunk rejects
\* the call with the message of the backend and takes its handler off the
\* socket, and no later chunk of the call is sent.
C16_ErrorRejects ==
    \A c \in Calls : \A r \in 1..Len(wire) :
        (IsReceived(r, "error") /\ WaitsAt(c, r)) =>
            /\ calls[c].pc = "rejected"
            /\ calls[c].error = wire[r].message
            /\ \A n \in 1..Len(listeners) : listeners[n] # c
            /\ \A q \in (r + 1)..Len(wire) : ~IsSpeak(q, c)

\* a call with chunks still to speak was rejected by an 'error' message, and
\* a 'generated' message came after it
C16_Witness ==
    \E c \in Calls : \E r \in 1..Len(wire) :
        /\ IsReceived(r, "error") /\ WaitsAt(c, r)
        /\ calls[c].pc = "rejected"
        /\ calls[c].error = BackendError
        /\ NextSpeakable(calls[c].chunks, calls[c].i + 1) < Len(calls[c].chunks)
        /\ \E q \in (r + 1)..Len(wire) : IsReceived(q, "generated")

\* C21: the n-th reconnect attempt since the last successful open was
\* scheduled with a delay of 1000 * 2^(n-1) ms
C21_ExponentialBackoff ==
    attempt.n > 0 => attempt.delay = 1000 * 2 ^ (attempt.n - 1)

\* the positions of the quotation marks that follow a token
TokenQuotes(t) ==
    { e \in 2..Len(t) : t[e] \in QuotationMarks /\ InToken(t, e - 1) }

\* the k-th of them from the left
TokenQuote(t, k) ==
    CHOOSE e \in TokenQuotes(t) : Cardinality({ x \in TokenQuotes(t) : x <= e }) = k

\* the characters of tokens before position e
TokenChars(t, e) == Cardinality({ i \in 1..(e - 1) : InToken(t, i) })

\* the text from position i on without its tokens, every quotation mark
\* written as the straight one
RECURSIVE WithoutTokens(_, _)
WithoutTokens(t, i) ==
    IF i > Len(t) THEN <<>>
    ELSE (IF InToken(t, i) THEN <<>>
          ELSE IF t[i] \in QuotationMarks THEN << QUOTE >> ELSE << t[i] >>)
         \o WithoutTokens(t, i + 1)

\* C22: preprocessText records one voice assignment for each token that a
\* quotation mark follows, in the order of the tokens, each with the voice of
\* its token's code, and the start positions increase strictly
C22_OneAssignmentPerToken ==
    (stage = "scan" /\ scan.i = 0) =>
        LET va == cleaned.voiceAssignments
        IN  /\ Len(va) = Cardinality(TokenQuotes(paragraphArg))
            /\ \A k \in 1..Len(va) :
                  LET code == TokenCode(paragraphArg, TokenQuote(paragraphArg, k) - 1)
                  IN  va[k].voice = (IF code \in DOMAIN voiceMap THEN voiceMap[code]
                                     ELSE settings.selectedVoice)
            /\ \A k \in 1..(Len(va) - 1) : va[k].start < va[k + 1].start

\* two tokens with different voices, and 'ktts' + letter that no mark follows
C22_Witness ==
    /\ stage = "scan"
    /\ scan.i = 0
    /\ Len(cleaned.voiceAssignments) = 2
    /\ cleaned.voiceAssignments[1].voice # cleaned.voiceAssignments[2].voice
    /\ \E i \in 1..Len(cleaned.text) : cleaned.text[i] = "k"

\* C23: the cleaned text is the normalized text without the characters of
\* the tokens, and each assignment's start is the position, in the cleaned
\* text, of the quotation mark that followed its token
C23_OnlyTokensDeleted ==
    (stage = "scan" /\ scan.i = 0) =>
        LET va == cleaned.voiceAssignments
        IN  /\ cleaned.text = WithoutTokens(paragraphArg, 1)
            /\ \A k \in 1..Len(va) :
                  /\ k <= Cardinality(TokenQuotes(paragraphArg))
                  /\ LET e == TokenQuote(paragraphArg, k)
                     IN  va[k].start = e - 1 - TokenChars(paragraphArg, e)
                  /\ CharAt(cleaned.text, va[k].start) = QUOTE

\* two tokens with a letter between the first quotation mark and the second
\* token
C23_Witness ==
    /\ stage = "scan"
    /\ scan.i = 0
    /\ Len(cleaned.voiceAssignments) = 2
    /\ cleaned.voiceAssignments[2].start = cleaned.voiceAssignments[1].start + 2
    /\ Len(paragraphArg) > Len(cleaned.text) + 9

\* the characters of a text that are no delimiter: every quotation mark is
\* one, an asterisk is one outside a quotation
NoDelimiters(t) ==
    Chars(SelectSeq(Marks(t, FALSE), LAMBDA m : m.mark = ""))

\* how often character c occurs in text t
Count(t, c) == Cardinality({ i \in 1..Len(t) : t[i] = c })

\* C24: the segments splitIntoSegments returns are non-empty, and their texts
\* in order make up the cleaned text without its quotation marks and without
\* its asterisks outside a quotation
C24_SegmentsPartition ==
    stage = "segmented" =>
        /\ \A k \in 1..Len(segmentList) : segmentList[k].text # <<>>
        /\ Flatten([k \in 1..Len(segmentList) |-> segmentList[k].text])
             = NoDelimiters(cleaned.text)

\* several segments, an asterisk kept inside a quotation and one deleted
\* outside
C24_Witness ==
    /\ stage = "segmented"
    /\ Len(segmentList) >= 2
    /\ \E k \in 1..Len(segmentList) : Count(segmentList[k].text, ASTERISK) = 1
    /\ Count(cleaned.text, ASTERISK) = 2
    /\ Len(cleaned.voiceAssignments) = 1

\* C25: a pass of the loop that reads an asterisk inside a quotation appends
\* it to the text of the quoted segment and changes neither the pushed
\* segments, nor the emphasis flag, nor the segment type
C25_AsteriskInQuotation ==
    [][(/\ stage = "scan"
        /\ scan.i < Len(cleaned.text)
        /\ CharAt(cleaned.text, scan.i) = ASTERISK
        /\ scan.inQuote)
       => /\ scan.currentType.kind \in {"quoted", "quoted:"}
          /\ scan' = [scan EXCEPT !.currentText = Append(@, ASTERISK), !.i = @ + 1]]_vars

\* an asterisk has just been read inside a quotation that was opened while
\* an emphasis was open
C25_Witness ==
    /\ stage = "scan"
    /\ scan.i > 0
    /\ cleaned.text[scan.i] = ASTERISK
    /\ scan.inQuote
    /\ scan.inAsterisk
    /\ scan.currentText = << "a", ASTERISK >>

\* the characters of a text other than whitespace
NonWhitespace(t) == SelectSeq(t, LAMBDA c : c \notin Whitespace)

\* the position in text t of its n-th character other than whitespace
NthNonWhitespace(t, n) ==
    CHOOSE p \in 1..Len(t) :
        /\ t[p] \notin Whitespace
        /\ Cardinality({ q \in 1..p : t[q] \notin Whitespace }) = n

\* the position in text t at which the k-th of the units us ends
UnitEnd(t, us, k) ==
    NthNonWhitespace(t, Len(Flatten([j \in 1..k |-> NonWhitespace(us[j])])))

\* C27: every unit but the last ends at a '.', '!' or '?' that stands outside
\* a quotation and before whitespace, so a terminator inside a quotation or
\* before any other character closes no unit; the units are trimmed and
\* non-empty and hold the characters of the text in order
C27_TerminatorClosesUnit ==
    stage = "units" =>
        /\ \A k \in 1..Len(units) :
              /\ units[k] # <<>>
              /\ units[k][1] \notin Whitespace
              /\ units[k][Len(units[k])] \notin Whitespace
        /\ Flatten([k \in 1..Len(units) |-> NonWhitespace(units[k])])
             = NonWhitespace(sentence)
        /\ \A k \in 1..(Len(units) - 1) :
              LET e == UnitEnd(sentence, units, k)
              IN  /\ sentence[e] \in Terminators
                  /\ Count(SubSeq(sentence, 1, e), QUOTE) % 2 = 0
                  /\ e < Len(sentence)
                  /\ sentence[e + 1] \in Whitespace

\* .a. a : the first period stands before a letter and closes nothing, the
\* second closes the unit
C27_Witness ==
    /\ stage = "units"
    /\ Len(units) = 2
    /\ sentence[1] \in Terminators
    /\ sentence[2] = "a"
    /\ units[1] = SubSeq(sentence, 1, 3)

\* the characters, other than whitespace, of the segments of all paragraphs
\* of text t in order, each with the number of its segment and the voice
\* resolved for that segment
SegmentChars(t, st, vmap) ==
    LET paragraphs == Paragraphs(t, st)
        segs == Flatten([p \in 1..Len(paragraphs) |->
                           splitIntoSegments(paragraphs[p], st, vmap)])
    IN  Flatten([k \in 1..Len(segs) |->
                   LET body == NonWhitespace(segs[k].text)
                   IN  [n \in 1..Len(body) |->
                          [ch |-> body[n], segment |-> k,
                           voice |-> getVoiceForSegment(segs[k].type, st)]]])

\* C26: the chunks hold the characters of the segments in order, each under
\* the voice resolved for its segment, and no chunk holds characters of two
\* segments
C26_OneSegmentPerChunk ==
    pc = "chunked" =>
        LET cc == ChunkChars(chunks)
            sc == SegmentChars(text, settings, voiceMap)
        IN  /\ Len(cc) = Len(sc)
            /\ \A i \in 1..Len(cc) :
                  /\ cc[i].ch = sc[i].ch
                  /\ cc[i].voice = sc[i].voice
            /\ \A i \in 1..(Len(cc) - 1) :
                  sc[i].segment # sc[i + 1].segment => cc[i].chunk # cc[i + 1].chunk

\* two segments of one paragraph with different voices whose texts would
\* fit into one chunk are two chunks
C26_Witness ==
    /\ pc = "chunked"
    /\ Len(chunks) = 2
    /\ chunks[1].voice # chunks[2].voice
    /\ Len(chunks[1].text) + Len(chunks[2].text) + 1 <= settings.maxChunkLength
    /\ Count(text, NEWLINE) = 0
    /\ chunks[1].text # <<>>
    /\ chunks[2].text # <<>>

\* the sentence units of all segments of all paragraphs of text t
SentenceLists(t, st, vmap) ==
    LET paragraphs == Paragraphs(t, st)
        segs == Flatten([p \in 1..Len(paragraphs) |->
                           splitIntoSegments(paragraphs[p], st, vmap)])
    IN  [k \in 1..Len(segs) |-> splitPreservingQuotes(segs[k].text)]

\* the greedy rule for the unit after the packer state before: a flush when
\* the buffer, a joining space and the unit exceed max, an append otherwise;
\* an empty buffer takes the unit without a space
GreedyStep(before, unit, max) ==
    LET joined == IF before.currentChunk = <<>> THEN unit
                  ELSE before.currentChunk \o << SPACE >> \o unit
    IN  IF Len(joined) > max
        THEN [pushed |-> Append(before.pushed, Trim(before.currentChunk)),
              currentChunk |-> unit]
        ELSE [pushed |-> before.pushed, currentChunk |-> joined]

\* C28: for a sentence unit no longer than maxChunkLength the packer takes
\* the greedy step: it flushes exactly when buffer, joining space and unit
\* exceed maxChunkLength, so a unit that fits into the empty buffer causes no
\* flush
C28_GreedyPacking ==
    pc = "chunked" =>
        LET lists == SentenceLists(text, settings, voiceMap)
            max == settings.maxChunkLength
        IN  \A k \in 1..Len(lists) : \A j \in 1..Len(lists[k]) :
              LET before == PackSentences([pushed |-> <<>>, currentChunk |-> <<>>],
                                          SubSeq(lists[k], 1, j - 1), max)
                  unit == Trim(lists[k][j])
              IN  Len(unit) <= max =>
                    PackSentence(before, lists[k][j], max) = GreedyStep(before, unit, max)

\* the indexes from 0 to max at which text t holds whitespace
WhitespaceWithin(t, max) ==
    { i \in 0..max : CharAt(t, i) \in Whitespace }

\* the largest element of a non-empty set of numbers
Largest(S) == CHOOSE x \in S : \A y \in S : y <= x

\* C29: an iteration of the forced split loop cuts at the last whitespace
\* (space, tab or line feed) at or before the limit when there is one, and
\* it cuts between two characters other than whitespace only when the first
\* maxChunkLength characters hold no whitespace
C29_CutAtWhitespace ==
    [][(loopPc = "loop" /\ loopPc' = "loop")
         => LET max == settings.maxChunkLength
                within == WhitespaceWithin(remainingSentence, max)
                cut == Len(remainingSentence) - Len(remainingSentence')
            IN  /\ within # {} =>
                      /\ remainingSentence'
                            = SliceFrom(remainingSentence, Largest(within) + 1)
                      /\ pushed' = Append(pushed,
                                          Trim(Slice(remainingSentence, 0, Largest(within))))
                /\ (/\ cut >= 1
                    /\ CharAt(remainingSentence, cut - 1) \notin Whitespace
                    /\ CharAt(remainingSentence, cut) \notin Whitespace
                    /\ pushed' = Append(pushed, Slice(remainingSentence, 0, cut)))
                   => WhitespaceWithin(remainingSentence, max - 1) = {}]_vars

\* positions i < j of text t hold line feeds with nothing but whitespace
\* between them: a blank line
BlankLine(t, i, j) ==
    /\ i < j
    /\ t[i] = NEWLINE
    /\ t[j] = NEWLINE
    /\ \A m \in (i + 1)..(j - 1) : t[m] \in Whitespace

\* text t holds no blank line
NoBlankLine(t) ==
    \A i \in 1..Len(t) : \A j \in 1..Len(t) : ~BlankLine(t, i, j)

\* C30: with respectParagraphs set, the chunks of p1 + blank line + p2, for
\* p1 and p2 without a blank line, are the chunks of p1 followed by the
\* chunks of p2
C30_ParagraphsIndependent ==
    (pc = "chunked" /\ settings.respectParagraphs) =>
        \A i \in 1..Len(text) : \A j \in (i + 1)..Len(text) :
            LET p1 == SubSeq(text, 1, i - 1)
                p2 == SubSeq(text, j + 1, Len(text))
            IN  (BlankLine(text, i, j) /\ NoBlankLine(p1) /\ NoBlankLine(p2)) =>
                    chunks = splitIntoChunks(p1, settings, voiceMap)
                               \o splitIntoChunks(p2, settings, voiceMap)

\* a quotation left open before the blank line, and after it text that is
\* spoken in the default voice although the distinct voices are in use
C30_Witness ==
    /\ pc = "chunked"
    /\ settings.respectParagraphs
    /\ settings.useDistinctVoices
    /\ \E i \in 1..Len(text) : \E j \in 1..Len(text) :
          /\ BlankLine(text, i, j)
          /\ Count(SubSeq(text, 1, i - 1), QUOTE) = 1
          /\ SubSeq(text, j + 1, Len(text)) = << "a" >>
    /\ chunks # <<>>
    /\ chunks[Len(chunks)].text = << "a" >>
    /\ chunks[Len(chunks)].voice = settings.selectedVoice

\* the sockets that are connecting: each was made by a new WebSocket(...)
\* of connectWebSocket and has had no event yet
Connecting == sockets.connecting + (IF ws = "connecting" THEN 1 ELSE 0)

\* C31: once onunload has invoked stopBackend, with no startBackend call
\* still in its wait (none is made afterwards), no step creates a WebSocket,
\* and whenever stopBackend has completed, this.ws and this.pythonProcess
\* are null
C31_NoReconnectWhileStopping ==
    [][(~loaded /\ starting = 0)
         => /\ Connecting' <= Connecting
            /\ stopping'.phase = "no" => (ws' = "null" /\ ~pythonProcess')]_vars

\* C32: after any updateVoiceMap, every stock voice's short name maps to its
\* full name, and a code that is in no mapping resolves to selectedVoice
C32_StockVoicesResolvable ==
    /\ \A n \in 1..Len(StockVoices) :
          LET shortName == SliceFrom(StockVoices[n], 3)
          IN  shortName \in DOMAIN voiceMap /\ voiceMap[shortName] = StockVoices[n]
    /\ (resolvedVoice # <<>> /\ voiceCode \notin DOMAIN voiceMap)
          => resolvedVoice = settings.selectedVoice

\* the calls a step takes out of their wait for a message
Released == { c \in Calls : calls[c].pc = "wait" /\ (calls'[c].pc # "wait" \/ calls'[c].i > calls[c].i) }

\* C33: a 'generated' message releases at most one of the speakText calls
\* that wait on the connection: the one whose chunk it acknowledges
C33_AcknowledgementPaired ==
    [][(wire' # wire /\ wire'[Len(wire) + 1] = Received("generated", ""))
         => Cardinality(Released) <= 1]_vars

\* C34: a speakText call that waits for the answer to a speak command can
\* still be completed: its handler is on the socket this.ws refers to and
\* that socket is open, so that a message can resolve or reject the wait
C34_WaitCanComplete ==
    \A c \in Calls :
        calls[c].pc = "wait" =>
            /\ ws = "open"
            /\ \E n \in 1..Len(listeners) : listeners[n] = c

\* the speak commands call c has sent, in order
SpeakCommands(c) ==
    SelectSeq(wire, LAMBDA e : e.kind = "send" /\ e.what = "speak" /\ e.call = c)

\* total_chunks of the start_session command of call c
TotalChunks(c) ==
    LET p == CHOOSE q \in 1..Len(wire) :
                 wire[q].kind = "send" /\ wire[q].what = "start_session" /\ wire[q].call = c
    IN  wire[p].index

\* C35: a speakText call that has run to its end without error has sent as
\* many speak commands as the total_chunks of its start_session command
\* says, with the chunk_index values 0, 1, ..., total_chunks - 1
C35_SessionBookkeeping ==
    \A c \in Calls :
        calls[c].pc = "resolved" =>
            /\ Len(SpeakCommands(c)) = TotalChunks(c)
            /\ \A n \in 1..Len(SpeakCommands(c)) : SpeakCommands(c)[n].index = n - 1

\* C36: the last chunk of a non-empty list returned by splitIntoChunks has a
\* text that is not blank, so the speak commands of a speakText call that
\* runs to its end hold exactly one with is_last_chunk = true (the index
\* chunks.length - 1), and it is the last of them
C36_LastChunkSignalled ==
    (pc = "chunked" /\ chunks # <<>>) =>
        LET sent == SpeakIndices(chunks, 0)
        IN  /\ Trim(chunks[Len(chunks)].text) # <<>>
            /\ sent # <<>>
            /\ sent[Len(sent)] = Len(chunks) - 1
            /\ \A n \in 1..(Len(sent) - 1) : sent[n] < Len(chunks) - 1

\* a list with a blank chunk before its last chunk: the loop of speakText
\* skips a chunk and still reaches the last one
C36_Witness ==
    /\ pc = "chunked"
    /\ Len(chunks) >= 2
    /\ \E k \in 1..(Len(chunks) - 1) : Trim(chunks[k].text) = <<>>
    /\ Len(SpeakIndices(chunks, 0)) < Len(chunks)
    /\ SpeakIndices(chunks, 0)[Len(SpeakIndices(chunks, 0))] = Len(chunks) - 1

\* C37: this.reconnectAttempts never exceeds maxReconnectAttempts
C37_AttemptsBounded ==
    reconnectAttempts <= maxReconnectAttempts

\* C38: no segment splitIntoSegments returns holds a quotation mark; so in
\* splitPreservingQuotes(segment.text) no prefix of the text holds an odd
\* number of marks (the flag inQuote is false at every step) and every
\* terminator before a space, a line feed or the end of the text ends a unit
C38_SegmentsWithoutQuotes ==
    /\ stage \in {"segmented", "segment units"} =>
          \A k \in 1..Len(segmentList) : \A n \in 1..Len(segmentList[k].text) :
              segmentList[k].text[n] \notin QuotationMarks
    /\ stage = "segment units" =>
          /\ \A n \in 1..Len(sentence) : Count(SubSeq(sentence, 1, n), QUOTE) % 2 = 0
          /\ \A e \in 1..Len(sentence) :
                (/\ sentence[e] \in Terminators
                 /\ e = Len(sentence) \/ sentence[e + 1] \in {SPACE, NEWLINE})
                => \E k \in 1..Len(units) : UnitEnd(sentence, units, k) = e

\* a paragraph with a quotation mark: the segment '. .' after the mark gives
\* two units, one closed before the space and one at the end of the text
C38_Witness ==
    /\ stage = "segment units"
    /\ \E n \in 1..Len(paragraphArg) : paragraphArg[n] \in QuotationMarks
    /\ sentence = << ".", SPACE, "." >>
    /\ units = << << "." >>, << "." >> >>

====
